---- MODULE Spec2Model ----
(***************************************************************************)
(* Signaling relay (server/server.js) and the client-side connection       *)
(* orchestrator (src/app/hooks/useWebRTC.ts over useWebSocket.ts) of the    *)
(* video-chat application, as one state machine.                            *)
(*                                                                          *)
(* Channel k is the WebSocket between orchestrator k and the relay.  The    *)
(* relay's half (readyState, the three maps) and the orchestrator's half    *)
(* (connectionState, refs, peer map) are separate variables; toRelay and    *)
(* toClient are the messages in flight in each direction.                   *)
(***************************************************************************)
EXTENDS Integers, Sequences, FiniteSets, TLC

\* ------------------------------------------------------------------ bounds
MaxQueue == 2       \* messages in flight per channel and direction
MaxSignals == 1     \* signal payloads minted in one behaviour
MaxGen == 2         \* connection instances one orchestrator allocates in one behaviour
MaxSent == 2        \* signals the connections of the pages emit in one behaviour

\* ------------------------------------------------------------- value sets
Chans == {1, 2, 3}
Ids == {"a", "b", "c"}
Rooms == {"r1", "r2"}
None == "none"      \* an absent (falsy) field / a null ref
NoData == <<>>      \* an absent signalData
Data(n) == <<n>>    \* the n-th opaque signal payload

VARIABLES
  \* relay (server.js)
  clients,          \* userId -> [ws, roomId]
  rooms,            \* roomId -> set of userIds
  wsToUserId,       \* ws -> userId
  readyState,       \* ws -> "OPEN" | "CLOSING" | "CLOSED"  (server half)
  \* network
  toRelay,          \* ws -> sequence of client messages not yet handled
  toClient,         \* ws -> sequence of relay messages not yet handled
  \* orchestrator k (useWebRTC.ts / useWebSocket.ts)
  connectionState,  \* k -> "CONNECTING" | "OPEN" | "CLOSED"
  isJoined,         \* k -> BOOLEAN
  userIdRef,        \* k -> id or None
  roomIdRef,        \* k -> room or None
  localStream,      \* k -> BOOLEAN (media acquired)
  peerCreatorRef,   \* k -> the localStream the createPeer in peerCreatorRef closed over
  peers,            \* k -> (peerId -> PeerData)              React state
  peersRef,         \* k -> (peerId -> PeerData)              ref, set by an effect
  gen,              \* k -> (peerId -> instances allocated so far)
  detached,         \* k -> instances no longer in peers: alive (never destroyed)
                    \*      or destroyed with their 'close' event still to fire
  \* history
  sigSeq,           \* signal payloads minted so far
  retired,          \* the roomIds deleted from rooms so far (kept by SpecRoom)
  initiating,       \* k -> <<[webSocketState, isJoined]>> of the render whose joinRoom a running
                    \*      initiateJoin of page k holds, or <<>> (kept by SpecJoin)
  rate,             \* the setVideoBitrate call of page 1 and the senders' maxBitrate (kept by SpecBitrate)
  dropped,          \* [data, receiverId] of the signals the relay did not forward
  joinedOn,         \* userId -> [ws, roomId]: its latest successful join, until ws closes or errors
  latest,           \* ws -> userId of the latest successful join over ws, until ws closes or errors
  joinOrder,        \* the registered userIds in the order of their joins
  last              \* the step just taken: [op, chan, msg, res, sent, destroyed, callbacks]

relayVars == <<clients, rooms, wsToUserId, readyState>>
netVars   == <<toRelay, toClient>>
orchVars  == <<connectionState, isJoined, userIdRef, roomIdRef, localStream,
               peerCreatorRef, peers, peersRef, gen, detached>>
histVars  == <<sigSeq, retired, rate, initiating, dropped, joinedOn, latest, joinOrder, last>>
vars == <<clients, rooms, wsToUserId, readyState, toRelay, toClient,
          connectionState, isJoined, userIdRef, roomIdRef, localStream,
          peerCreatorRef, peers, peersRef, gen, detached, sigSeq, retired, rate, initiating, dropped, joinedOn, latest, joinOrder, last>>

\* ---------------------------------------------------------------- helpers
EmptyMap == [x \in {} |-> None]
MapSet(f, k, v) == [x \in (DOMAIN f) \cup {k} |-> IF x = k THEN v ELSE f[x]]
MapDel(f, k) == [x \in (DOMAIN f) \ {k} |-> f[x]]
EmptyQ == [c \in Chans |-> <<>>]
RECURSIVE Repeat(_, _)
Repeat(m, n) == IF n = 0 THEN <<>> ELSE <<m>> \o Repeat(m, n - 1)

\* ---------------------------------------------------------------- messages
JoinMsg(userId, roomId) == [type |-> "join", userId |-> userId, roomId |-> roomId]
SignalMsg(receiverId, signalData) ==
  [type |-> "signal", receiverId |-> receiverId, signalData |-> signalData]
ReconnectMsg(targetId, userId) ==
  [type |-> "reconnect_request", targetId |-> targetId, userId |-> userId]
ErrorMsg(message, about) == [type |-> "error", message |-> message, about |-> about]
ExistingRoomMsg(userIds) == [type |-> "existing_room", userIds |-> userIds]
UserJoinedMsg(userId) == [type |-> "user_joined", userId |-> userId]
UserLeftMsg(userId) == [type |-> "user_left", userId |-> userId]
RelayedSignalMsg(senderId, signalData) ==
  [type |-> "signal", senderId |-> senderId, signalData |-> signalData]
NoMsg == [type |-> "none"]

\* ------------------------------------------------------------------- relay
\* The relay operators work on a record
\*   R = [clients, rooms, wsToUserId, out, log, close, res]
\* (out: ws -> queue written so far; log: the writes [ws, msg] in the order
\* they were made; close: ws.close() was called; res: the branch taken) and
\* return the record after the call.

\* sendTo(ws, message): written only to an OPEN socket.
SendTo(R, ws, message) ==
  IF readyState[ws] = "OPEN"
  THEN [R EXCEPT !.out[ws] = Append(@, message),
                 !.log = Append(@, [ws |-> ws, msg |-> message])]
  ELSE R

\* The writes of one message to the sockets of the userIds in turn.
RECURSIVE Writes(_, _, _)
Writes(R, userIds, message) ==
  IF userIds = <<>> THEN <<>>
  ELSE <<[ws |-> R.clients[Head(userIds)].ws, msg |-> message]>>
         \o Writes(R, Tail(userIds), message)

\* A broadcast that does not look at the room: one sendTo per registered
\* participant whose socket is not the sender's and is OPEN.
BroadcastToAll(R, roomId, senderWs, message) ==
  LET Reached(u) == /\ u \in DOMAIN R.clients
                    /\ R.clients[u].ws # senderWs
                    /\ readyState[R.clients[u].ws] = "OPEN"
  IN [R EXCEPT !.out = [w \in Chans |->
        IF \E u \in DOMAIN R.clients : Reached(u) /\ R.clients[u].ws = w
        THEN Append(R.out[w], message) ELSE R.out[w]],
               !.log = @ \o Writes(R, SelectSeq(joinOrder, Reached), message)]

\* broadcast(roomId, senderWs, message): one sendTo per member whose client
\* entry exists, is not the sender's socket and is OPEN; room.forEach visits
\* the members in the order they were added.
Broadcast(R, roomId, senderWs, message) ==
  IF roomId \notin DOMAIN R.rooms THEN R
  ELSE LET n(w) == Cardinality({u \in R.rooms[roomId] :
                      u \in DOMAIN R.clients /\ R.clients[u].ws = w})
           Reached(u) == /\ u \in R.rooms[roomId]
                         /\ u \in DOMAIN R.clients
                         /\ R.clients[u].ws # senderWs
                         /\ readyState[R.clients[u].ws] = "OPEN"
       IN [R EXCEPT !.out = [w \in Chans |->
             IF w # senderWs /\ readyState[w] = "OPEN"
             THEN R.out[w] \o Repeat(message, n(w))
             ELSE R.out[w]],
                    !.log = @ \o Writes(R, SelectSeq(joinOrder, Reached), message)]

\* room.delete(userId) in handleDisconnect, and the same with the delete left out
RoomDeleteLeftOut(room, userId) == room
RoomDelete(room, userId) == room \ {userId}

\* the broadcast of user_left in handleDisconnect, and the same left out
NotifyLeftNobody(R, roomId, ws, userId) == R
NotifyLeft(R, roomId, ws, userId) == Broadcast(R, roomId, ws, UserLeftMsg(userId))

\* rooms.delete(roomId) once the room is empty, and the same keeping the
\* empty room in the map
RoomEmptiedKept(rms, roomId) == [rms EXCEPT ![roomId] = {}]
RoomEmptied(rms, roomId) == MapDel(rms, roomId)

\* handleDisconnect(ws) forgetting neither the socket nor the client: only the
\* room is updated and told
HandleDisconnectRemembering(R, ws) ==
  IF ws \notin DOMAIN R.wsToUserId THEN R
  ELSE LET userId == R.wsToUserId[ws] IN
    IF userId \notin DOMAIN R.clients THEN R
    ELSE LET roomId == R.clients[userId].roomId
         IN IF roomId \notin DOMAIN R.rooms THEN R
            ELSE LET room == RoomDelete(R.rooms[roomId], userId) IN
              IF room = {}
              THEN [R EXCEPT !.rooms = RoomEmptied(@, roomId)]
              ELSE NotifyLeft([R EXCEPT !.rooms[roomId] = room], roomId, ws, userId)
\* handleDisconnect(ws), and the same with clients.delete(userId) left out
HandleDisconnectKeepsClient(R, ws) ==
  IF ws \notin DOMAIN R.wsToUserId THEN R
  ELSE LET userId == R.wsToUserId[ws] IN
    IF userId \notin DOMAIN R.clients THEN R
    ELSE LET roomId == R.clients[userId].roomId
             R1 == [R EXCEPT !.wsToUserId = MapDel(@, ws)]
         IN IF roomId \notin DOMAIN R1.rooms THEN R1
            ELSE LET room == RoomDelete(R1.rooms[roomId], userId) IN
              IF room = {}
              THEN [R1 EXCEPT !.rooms = RoomEmptied(@, roomId)]
              ELSE NotifyLeft([R1 EXCEPT !.rooms[roomId] = room], roomId, ws, userId)
HandleDisconnect(R, ws) ==
  IF ws \notin DOMAIN R.wsToUserId THEN R
  ELSE LET userId == R.wsToUserId[ws] IN
    IF userId \notin DOMAIN R.clients THEN R
    ELSE LET roomId == R.clients[userId].roomId
             R1 == [R EXCEPT !.wsToUserId = MapDel(@, ws),
                             !.clients = MapDel(@, userId)]
         IN IF roomId \notin DOMAIN R1.rooms THEN R1
            ELSE LET room == RoomDelete(R1.rooms[roomId], userId) IN
              IF room = {}
              THEN [R1 EXCEPT !.rooms = RoomEmptied(@, roomId)]
              ELSE NotifyLeft([R1 EXCEPT !.rooms[roomId] = room], roomId, ws, userId)

\* clients.has(userId) in case 'join', and the same with the check left out
InUseNever(R, userId) == FALSE
InUse(R, userId) == userId \in DOMAIN R.clients

\* "Clean up any previous association" in case 'join', and the same skipped
JoinCleanupSkipped(R, ws) == R
\* and the same telling nobody
JoinCleanupQuiet(R, ws) == [HandleDisconnect(R, ws) EXCEPT !.out = R.out, !.log = R.log]
JoinCleanup(R, ws) == HandleDisconnect(R, ws)

\* existingUserIds in case 'join', and the same without the filter
ExistingUserIdsUnfiltered(room, userId) == room
ExistingUserIds(room, userId) == room \ {userId}

\* the reply to a join without userId or roomId, and the same closing the
\* socket as the duplicate-identifier branch does
JoinMissingClosed(R, ws) ==
  [SendTo(R, ws, ErrorMsg("Missing userId or roomId in join message", None))
     EXCEPT !.close = TRUE]
JoinMissing(R, ws) ==
  SendTo(R, ws, ErrorMsg("Missing userId or roomId in join message", None))

\* case 'join'
OnJoin(R, ws, m) ==
  LET userId == m.userId
      roomId == m.roomId
  IN IF userId = None \/ roomId = None
     THEN [JoinMissing(R, ws) EXCEPT !.res = "join_missing"]
     ELSE IF InUse(R, userId)
     THEN [SendTo(R, ws, ErrorMsg("User ID is already in use.", userId))
             EXCEPT !.close = TRUE, !.res = "join_in_use"]
     ELSE LET R1 == JoinCleanup(R, ws)
              R2 == [R1 EXCEPT !.wsToUserId = MapSet(@, ws, userId),
                               !.clients = MapSet(@, userId, [ws |-> ws, roomId |-> roomId])]
              R3 == [R2 EXCEPT !.rooms = MapSet(@, roomId,
                        (IF roomId \in DOMAIN R2.rooms THEN R2.rooms[roomId] ELSE {})
                          \cup {userId})]
              existingUserIds == ExistingUserIds(R3.rooms[roomId], userId)
              R4 == SendTo(R3, ws, ExistingRoomMsg(existingUserIds))
          IN [Broadcast(R4, roomId, ws, UserJoinedMsg(userId)) EXCEPT !.res = "join_ok"]

\* the else branch of case 'signal' (the receiver is unknown or not OPEN), and
\* the same with the notification the source keeps commented out
SignalMissNotified(R, ws, receiverId) ==
  SendTo(R, ws, ErrorMsg("User is not available.", receiverId))
SignalMiss(R, ws, receiverId) == R

\* the reply to a signal from a socket without a userId, and the same
\* forwarding the signal all the same
SignalNoSenderForwarded(R, ws, m) ==
  LET R1 == SendTo(R, ws, ErrorMsg("Cannot send signal before joining a room", None))
  IN IF m.receiverId \in DOMAIN R.clients
     THEN SendTo(R1, R.clients[m.receiverId].ws, RelayedSignalMsg(None, m.signalData))
     ELSE R1
SignalNoSender(R, ws, m) ==
  SendTo(R, ws, ErrorMsg("Cannot send signal before joining a room", None))

\* the relay of a signal to the receiver's socket, and the same written to
\* the sender's room as a broadcast would
SignalRelayToRoom(R, ws, m) ==
  Broadcast(R, R.clients[R.wsToUserId[ws]].roomId, ws,
            RelayedSignalMsg(R.wsToUserId[ws], m.signalData))
\* and the same forwarding within the sender's room only
SignalRelayInRoom(R, ws, m) ==
  IF R.clients[m.receiverId].roomId = R.clients[R.wsToUserId[ws]].roomId
  THEN SendTo(R, R.clients[m.receiverId].ws,
              RelayedSignalMsg(R.wsToUserId[ws], m.signalData))
  ELSE R
\* and the same taking the sender from the payload when it names one
SignalRelayTrusting(R, ws, m) ==
  SendTo(R, R.clients[m.receiverId].ws,
         RelayedSignalMsg(IF "senderId" \in DOMAIN m THEN m.senderId ELSE R.wsToUserId[ws],
                          m.signalData))
SignalRelay(R, ws, m) ==
  SendTo(R, R.clients[m.receiverId].ws,
         RelayedSignalMsg(R.wsToUserId[ws], m.signalData))

\* case 'signal'
OnSignal(R, ws, m) ==
  IF ws \notin DOMAIN R.wsToUserId
  THEN [SignalNoSender(R, ws, m) EXCEPT !.res = "signal_no_sender"]
  ELSE IF m.receiverId = None \/ m.signalData = NoData
  THEN [SendTo(R, ws, ErrorMsg("Missing receiverId or signalData in signal message", None))
          EXCEPT !.res = "signal_missing"]
  ELSE IF m.receiverId \in DOMAIN R.clients
          /\ readyState[R.clients[m.receiverId].ws] = "OPEN"
  THEN [SignalRelay(R, ws, m) EXCEPT !.res = "signal_relayed"]
  ELSE [SignalMiss(R, ws, m.receiverId) EXCEPT !.res = "signal_dropped"]

\* ws.on('message'): the switch on data.type
\* JSON.parse returns null for the text null: data.type throws in the try,
\* and again in the template of the catch block before its sendTo, so the
\* exception leaves the listener with nothing written; no handler for an
\* uncaught exception is installed and the process ends with its maps.
OnMessage(R, ws, m) ==
  CASE m.type = "#notjson" -> [R EXCEPT !.res = "ignored"]
    [] m.type = "#null" -> [R EXCEPT !.clients = EmptyMap, !.rooms = EmptyMap,
                                     !.wsToUserId = EmptyMap, !.res = "uncaught"]
    [] m.type = "join" -> OnJoin(R, ws, m)
    [] m.type = "signal" -> OnSignal(R, ws, m)
    [] OTHER -> [SendTo(R, ws, ErrorMsg("Unknown message type: ", m.type))
                   EXCEPT !.res = "unknown_type"]

\* The relay's maps as a handler finds them; out collects what it writes.
RelayRec ==
  [clients |-> clients, rooms |-> rooms, wsToUserId |-> wsToUserId,
   out |-> EmptyQ, log |-> <<>>, close |-> FALSE, res |-> "none"]

\* The record of a step: the event handled, the branch taken, the messages
\* written per socket, the relay's writes in their order, the connection
\* instances destroyed and the onPeerDisconnect calls made.
OrchStep(op, chan, m, res, sent, destroyed, callbacks) ==
  [op |-> op, chan |-> chan, msg |-> m, res |-> res, sent |-> sent,
   log |-> <<>>, destroyed |-> destroyed, callbacks |-> callbacks]
Step(op, chan, m, res, sent) == OrchStep(op, chan, m, res, sent, {}, <<>>)

\* The relay's variables after a handler returned R on socket ws; `ready` is
\* the socket's readyState once the event is over.
RelayCommit(R, ws, ready, op, m) ==
  /\ clients' = R.clients
  /\ rooms' = R.rooms
  /\ wsToUserId' = R.wsToUserId
  /\ readyState' = IF R.res = "uncaught" THEN [c \in Chans |-> "CLOSED"]
                   ELSE [readyState EXCEPT ![ws] = ready]
  /\ last' = [Step(op, ws, m, R.res, R.out) EXCEPT !.log = R.log]
  /\ joinedOn' =
       IF R.res = "join_ok"
       THEN MapSet(joinedOn, m.userId, [ws |-> ws, roomId |-> m.roomId])
       ELSE IF op \in {"close", "error"}
       THEN [u \in {x \in DOMAIN joinedOn : joinedOn[x].ws # ws} |-> joinedOn[u]]
       ELSE IF R.res = "uncaught" THEN EmptyMap
       ELSE joinedOn
  /\ latest' =
       IF R.res = "join_ok" THEN MapSet(latest, ws, m.userId)
       ELSE IF op \in {"close", "error"} THEN MapDel(latest, ws)
       ELSE IF R.res = "uncaught" THEN EmptyMap
       ELSE latest
  /\ joinOrder' =
       LET Stays(u) == u \in DOMAIN R.clients /\ (R.res = "join_ok" => u # m.userId)
       IN SelectSeq(joinOrder, Stays) \o (IF R.res = "join_ok" THEN <<m.userId>> ELSE <<>>)
  /\ dropped' =
       IF R.res = "signal_dropped"
       THEN dropped \cup {[data |-> m.signalData, receiverId |-> m.receiverId]}
       ELSE dropped

\* ws.on('message') for message m arriving on ws; ws.close() in the handler
\* moves an OPEN socket to CLOSING.
RelayMessage(ws, m) ==
  /\ readyState[ws] \in {"OPEN", "CLOSING"}
  /\ LET R == OnMessage(RelayRec, ws, m)
     IN RelayCommit(R, ws, IF R.close THEN "CLOSING" ELSE readyState[ws], "message", m)

\* ws.on('error'): the library has already left OPEN when it emits 'error',
\* and emits 'close' afterwards.
RelayError(ws) ==
  /\ readyState[ws] \in {"OPEN", "CLOSING"}
  /\ RelayCommit(HandleDisconnect(RelayRec, ws), ws, "CLOSING", "error", NoMsg)

\* ws.on('close')
RelayClose(ws) ==
  /\ readyState[ws] \in {"OPEN", "CLOSING"}
  /\ RelayCommit(HandleDisconnect(RelayRec, ws), ws, "CLOSED", "close", NoMsg)

\* wss.on('connection'): a new socket object, known to none of the maps.
RelayConnection(ws) ==
  /\ readyState[ws] = "CLOSED"
  /\ ws \notin DOMAIN wsToUserId
  /\ readyState' = [readyState EXCEPT ![ws] = "OPEN"]
  /\ last' = Step("connection", ws, NoMsg, "none", EmptyQ)
  /\ UNCHANGED <<clients, rooms, wsToUserId, joinedOn, latest, joinOrder, dropped>>

\* ------------------------------------------------------------ orchestrator
\* The orchestrator operators work on a record
\*   O = [isJoined, userIdRef, roomIdRef, peers, peersRef, gen, detached,
\*        stream, out, destroyed, callbacks, res]
\* (stream: the localStream of the createPeer in use; out: messages handed to
\* sendMessage; destroyed: instances destroy() was called on; callbacks:
\* onPeerDisconnect calls) and return the record after the call.  A setPeers
\* updater is applied where it is queued; peersRef follows in Effect.

\* new Peer({ initiator, ... }): instance n for peerId, as PeerData
NewPeer(n, initiator) ==
  [n |-> n, initiator |-> initiator, stream |-> FALSE, phase |-> "created"]

\* An instance outside the map.
Detached(peerId, pd, alive) ==
  [peerId |-> peerId, n |-> pd.n, initiator |-> pd.initiator,
   stream |-> pd.stream, alive |-> alive]

\* createPeer(peerId, initiator), and the same handing out the instance made
\* last for the peer
CreatePeerReusing(O, peerId, initiator) ==
  IF ~O.stream \/ O.userIdRef = None THEN O
  ELSE IF peerId \in DOMAIN O.peersRef THEN O
  ELSE LET n == IF O.gen[peerId] = 0 THEN 1 ELSE O.gen[peerId]
           up == [O EXCEPT !.gen[peerId] = n,
                           !.peers = MapSet(@, peerId, NewPeer(n, initiator))]
       IN IF peerId \in DOMAIN O.peers /\ O.peers[peerId].n # n
          THEN [up EXCEPT !.detached = @ \cup {Detached(peerId, O.peers[peerId], TRUE)}]
          ELSE up
CreatePeer(O, peerId, initiator) ==
  IF ~O.stream \/ O.userIdRef = None THEN O
  ELSE IF peerId \in DOMAIN O.peersRef THEN O
  ELSE LET n == O.gen[peerId] + 1
           up == [O EXCEPT !.gen[peerId] = n,
                           !.peers = MapSet(@, peerId, NewPeer(n, initiator))]
       IN IF peerId \in DOMAIN O.peers
          THEN [up EXCEPT !.detached = @ \cup {Detached(peerId, O.peers[peerId], TRUE)}]
          ELSE up

\* What the step record keeps of an instance destroy() was called on.
Destroyed(peerId, pd) == [peerId |-> peerId, n |-> pd.n, phase |-> pd.phase]

\* removePeer(peerId), and the same notifying the application although no
\* record was found, and the same keeping a connected peer
RemovePeerAlwaysNotifies(O, peerId, emitter) ==
  IF peerId \in DOMAIN O.peers
  THEN LET pd == O.peers[peerId] IN
       [O EXCEPT !.peers = MapDel(@, peerId),
                 !.destroyed = @ \cup {Destroyed(peerId, pd)},
                 !.detached = IF pd.n = emitter THEN @
                              ELSE @ \cup {Detached(peerId, pd, FALSE)},
                 !.callbacks = Append(@, peerId)]
  ELSE [O EXCEPT !.callbacks = Append(@, peerId)]
RemovePeerUnlessConnected(O, peerId, emitter) ==
  IF peerId \in DOMAIN O.peers /\ O.peers[peerId].phase # "connected"
  THEN LET pd == O.peers[peerId] IN
       [O EXCEPT !.peers = MapDel(@, peerId),
                 !.destroyed = @ \cup {Destroyed(peerId, pd)},
                 !.detached = IF pd.n = emitter THEN @
                              ELSE @ \cup {Detached(peerId, pd, FALSE)},
                 !.callbacks = Append(@, peerId)]
  ELSE O

\* removePeer(peerId), called while instance `emitter` of that peer is emitting
\* 'close' or 'error' (0: called from a message handler).  destroy() on the
\* emitting instance does nothing; on another one it schedules its 'close'.
\* and the same giving up every record of the map
RemovePeerAndTheRest(O, peerId, emitter) ==
  IF peerId \in DOMAIN O.peers
  THEN [O EXCEPT !.peers = EmptyMap,
                 !.destroyed = @ \cup {Destroyed(x, O.peers[x]) : x \in DOMAIN O.peers},
                 !.detached = @ \cup {Detached(x, O.peers[x], FALSE) :
                                        x \in {y \in DOMAIN O.peers : O.peers[y].n # emitter \/ y # peerId}},
                 !.callbacks = Append(@, peerId)]
  ELSE O
RemovePeer(O, peerId, emitter) ==
  IF peerId \in DOMAIN O.peers
  THEN LET pd == O.peers[peerId] IN
       [O EXCEPT !.peers = MapDel(@, peerId),
                 !.destroyed = @ \cup {Destroyed(peerId, pd)},
                 !.detached = IF pd.n = emitter THEN @
                              ELSE @ \cup {Detached(peerId, pd, FALSE)},
                 !.callbacks = Append(@, peerId)]
  ELSE O

\* the creations of case 'existing_room', one id after the other
\* the creations, stopping after the first peer
CreateAllOnlyFirst(O, userIds) ==
  LET others == userIds \ {O.userIdRef}
  IN IF others = {} THEN O
     ELSE CreatePeer(O, CHOOSE x \in others : TRUE, TRUE)

RECURSIVE CreateAll(_, _)
CreateAll(O, userIds) ==
  IF userIds = {} THEN O
  ELSE LET peerId == CHOOSE x \in userIds : TRUE
       IN CreateAll(IF peerId = O.userIdRef THEN O ELSE CreatePeer(O, peerId, TRUE),
                    userIds \ {peerId})

\* peerData.peer.signal(signalData) on the record the ref holds
AcceptSignal(O, senderId) ==
  IF senderId \in DOMAIN O.peers /\ O.peers[senderId].n = O.peersRef[senderId].n
       /\ O.peers[senderId].phase = "created"
  THEN [O EXCEPT !.peers[senderId].phase = "signaling"]
  ELSE O

\* case 'user_joined', and the same with the old member initiating
OnUserJoinedInitiating(O, m) ==
  IF O.userIdRef # None /\ m.userId # O.userIdRef
  THEN [CreatePeer(O, m.userId, TRUE) EXCEPT !.res = "user_joined"]
  ELSE [O EXCEPT !.res = "ignored"]
OnUserJoined(O, m) ==
  IF O.userIdRef # None /\ m.userId # O.userIdRef
  THEN [CreatePeer(O, m.userId, FALSE) EXCEPT !.res = "user_joined"]
  ELSE [O EXCEPT !.res = "ignored"]

\* handleWebSocketMessage(message)
HandleWebSocketMessage(O, m) ==
  CASE m.type = "existing_room" ->
         IF O.userIdRef # None
         THEN [CreateAll(O, m.userIds) EXCEPT !.res = "existing_room"]
         ELSE [O EXCEPT !.res = "no_user_id"]
    [] m.type = "user_joined" -> OnUserJoined(O, m)
    [] m.type = "signal" ->
         IF m.senderId \in DOMAIN O.peersRef
         THEN [AcceptSignal(O, m.senderId) EXCEPT !.res = "signal_accepted"]
         ELSE [O EXCEPT !.res = "signal_unknown_peer"]
    [] m.type = "user_left" ->
         [RemovePeer(O, m.userId, 0) EXCEPT !.res = "user_left"]
    [] m.type = "error" -> [O EXCEPT !.res = "error_logged"]
    [] m.type = "reconnect_request" ->
         IF O.userIdRef # None /\ m.targetId = O.userIdRef /\ m.userId # O.userIdRef
         THEN LET O1 == IF m.userId \in DOMAIN O.peersRef
                        THEN RemovePeer(O, m.userId, 0) ELSE O
              IN [CreatePeer(O1, m.userId, TRUE) EXCEPT !.res = "reconnect"]
         ELSE [O EXCEPT !.res = "ignored"]
    [] OTHER -> [O EXCEPT !.res = "unhandled"]

\* sendMessage(message) of useWebSocket
SendMessage(O, k, message) ==
  IF connectionState[k] = "OPEN" THEN [O EXCEPT !.out = Append(@, message)] ELSE O

\* The webSocketState and isJoined a joinRoom created by the current render
\* of page k closes over.
Closure(O, k) == [webSocketState |-> connectionState[k], isJoined |-> O.isJoined]

\* joinRoom({ roomId, userId }) of the render `closure`: the guards read the
\* values of that render, sendMessage reads the socket.
JoinRoomFrom(O, k, roomId, userId, closure) ==
  IF closure.webSocketState # "OPEN" THEN [O EXCEPT !.res = "not_open"]
  ELSE IF roomId = None \/ userId = None THEN [O EXCEPT !.res = "missing"]
  ELSE IF closure.isJoined THEN [O EXCEPT !.res = "already_joined"]
  ELSE [SendMessage([O EXCEPT !.roomIdRef = roomId, !.userIdRef = userId],
                    k, JoinMsg(userId, roomId))
          EXCEPT !.isJoined = TRUE, !.res = "join_sent"]

\* joinRoom({ roomId, userId }) called in the render that created it
JoinRoom(O, k, roomId, userId) == JoinRoomFrom(O, k, roomId, userId, Closure(O, k))

\* leaveRoom(): destroys what peersRef holds, empties peers and peersRef
\* and the same leaving userIdRef.current as it is
LeaveRoomKeepsUserId(O) ==
  LET held == {x \in DOMAIN O.peers :
                 x \in DOMAIN O.peersRef /\ O.peersRef[x].n = O.peers[x].n}
      inRef(d) == d.peerId \in DOMAIN O.peersRef /\ O.peersRef[d.peerId].n = d.n
  IN [O EXCEPT !.destroyed = {Destroyed(x, O.peersRef[x]) : x \in DOMAIN O.peersRef},
               !.detached = {IF inRef(d) THEN [d EXCEPT !.alive = FALSE] ELSE d : d \in @}
                              \cup {Detached(x, O.peers[x], x \notin held) : x \in DOMAIN O.peers},
               !.peers = EmptyMap,
               !.peersRef = EmptyMap,
               !.roomIdRef = None,
               !.isJoined = FALSE,
               !.res = "left"]
\* and the same telling the relay
LeaveRoomAnnounced(O) ==
  LET held == {x \in DOMAIN O.peers :
                 x \in DOMAIN O.peersRef /\ O.peersRef[x].n = O.peers[x].n}
      inRef(d) == d.peerId \in DOMAIN O.peersRef /\ O.peersRef[d.peerId].n = d.n
  IN [O EXCEPT !.destroyed = {Destroyed(x, O.peersRef[x]) : x \in DOMAIN O.peersRef},
               !.detached = {IF inRef(d) THEN [d EXCEPT !.alive = FALSE] ELSE d : d \in @}
                              \cup {Detached(x, O.peers[x], x \notin held) : x \in DOMAIN O.peers},
               !.peers = EmptyMap,
               !.peersRef = EmptyMap,
               !.roomIdRef = None,
               !.userIdRef = None,
               !.isJoined = FALSE,
               !.out = Append(@, [type |-> "leave"]),
               !.res = "left"]
LeaveRoom(O) ==
  LET held == {x \in DOMAIN O.peers :
                 x \in DOMAIN O.peersRef /\ O.peersRef[x].n = O.peers[x].n}
      inRef(d) == d.peerId \in DOMAIN O.peersRef /\ O.peersRef[d.peerId].n = d.n
  IN [O EXCEPT !.destroyed = {Destroyed(x, O.peersRef[x]) : x \in DOMAIN O.peersRef},
               !.detached = {IF inRef(d) THEN [d EXCEPT !.alive = FALSE] ELSE d : d \in @}
                              \cup {Detached(x, O.peers[x], x \notin held) : x \in DOMAIN O.peers},
               !.peers = EmptyMap,
               !.peersRef = EmptyMap,
               !.roomIdRef = None,
               !.userIdRef = None,
               !.isJoined = FALSE,
               !.res = "left"]

\* A fallback that gives up every connection the ref holds.
ReplaceTrackFallbackAll(O, k, peerId) ==
  [O EXCEPT !.destroyed = {Destroyed(y, O.peersRef[y]) : y \in DOMAIN O.peersRef},
            !.peers = EmptyMap,
            !.res = "replace_fallback"]

\* The fallback of replaceVideoTrack when replaceTrack was rejected for peerId:
\* the instance the ref holds is destroyed, the record of peerId is deleted
\* from the map, and a reconnect_request goes to sendMessage.
ReplaceTrackFallback(O, k, peerId) ==
  LET pd == O.peersRef[peerId]
      inMap == peerId \in DOMAIN O.peers
      O1 == [O EXCEPT !.destroyed = {Destroyed(peerId, pd)},
                      !.detached =
                        {IF d.peerId = peerId /\ d.n = pd.n THEN [d EXCEPT !.alive = FALSE] ELSE d : d \in @}
                          \cup (IF inMap
                                THEN {Detached(peerId, O.peers[peerId], O.peers[peerId].n # pd.n)}
                                ELSE {}),
                      !.peers = MapDel(@, peerId),
                      !.res = "replace_fallback"]
  IN IF O.userIdRef # None THEN SendMessage(O1, k, ReconnectMsg(peerId, O.userIdRef)) ELSE O1

\* Orchestrator k as its handlers find it.
OrchRec(k) ==
  [isJoined |-> isJoined[k], userIdRef |-> userIdRef[k], roomIdRef |-> roomIdRef[k],
   peers |-> peers[k], peersRef |-> peersRef[k], gen |-> gen[k],
   detached |-> detached[k], stream |-> peerCreatorRef[k],
   out |-> <<>>, destroyed |-> {}, callbacks |-> <<>>, res |-> "none"]

\* Orchestrator k's variables after a handler returned O.
OrchCommit(O, k, op, m) ==
  /\ isJoined' = [isJoined EXCEPT ![k] = O.isJoined]
  /\ userIdRef' = [userIdRef EXCEPT ![k] = O.userIdRef]
  /\ roomIdRef' = [roomIdRef EXCEPT ![k] = O.roomIdRef]
  /\ peers' = [peers EXCEPT ![k] = O.peers]
  /\ peersRef' = [peersRef EXCEPT ![k] = O.peersRef]
  /\ gen' = [gen EXCEPT ![k] = O.gen]
  /\ detached' = [detached EXCEPT ![k] = O.detached]
  /\ last' = OrchStep(op, k, m, O.res, [EmptyQ EXCEPT ![k] = O.out],
                      O.destroyed, O.callbacks)

\* An instance outside the map on which destroy() was never called is not the
\* one peersRef holds for its peer.
NeverHeld ==
  \A k \in Chans : \A z \in detached[k] :
    z.alive => ~(z.peerId \in DOMAIN peersRef[k] /\ peersRef[k][z.peerId].n = z.n)

\* The instances allocated so far stay within the bound.
RECURSIVE Total(_, _)
Total(g, S) ==
  IF S = {} THEN 0 ELSE LET x == CHOOSE y \in S : TRUE IN g[x] + Total(g, S \ {x})
GenOk(O) == Total(O.gen, Ids) <= MaxGen

\* socket.onmessage -> handleWebSocketMessage
OrchMessage(k, m) ==
  LET O == HandleWebSocketMessage(OrchRec(k), m)
  IN GenOk(O) /\ OrchCommit(O, k, "onmessage", m)

\* the application calls joinRoom
OrchJoinRoom(k, roomId, userId) ==
  OrchCommit(JoinRoom(OrchRec(k), k, roomId, userId), k, "joinRoom",
             JoinMsg(userId, roomId))

\* the application calls leaveRoom
OrchLeaveRoom(k) == OrchCommit(LeaveRoom(OrchRec(k)), k, "leaveRoom", NoMsg)

\* The effects after a render: peersRef.current = peers, peerCreatorRef.current
\* = the createPeer of the current localStream.
Effect(k) ==
  /\ peersRef[k] # peers[k] \/ peerCreatorRef[k] # localStream[k]
  /\ peersRef' = [peersRef EXCEPT ![k] = peers[k]]
  /\ peerCreatorRef' = [peerCreatorRef EXCEPT ![k] = localStream[k]]
  /\ last' = Step("effect", k, NoMsg, "none", EmptyQ)
  /\ UNCHANGED <<connectionState, isJoined, userIdRef, roomIdRef, localStream,
                 peers, gen, detached>>

\* setLocalStream(stream) in the application
GetMedia(k) ==
  /\ ~localStream[k]
  /\ localStream' = [localStream EXCEPT ![k] = TRUE]
  /\ last' = Step("getMedia", k, NoMsg, "none", EmptyQ)
  /\ UNCHANGED <<connectionState, isJoined, userIdRef, roomIdRef,
                 peerCreatorRef, peers, peersRef, gen, detached>>

\* newPeer.on('close') of the instance in the map: it closed by itself.
PeerClose(k, peerId) ==
  /\ peerId \in DOMAIN peers[k]
  /\ OrchCommit([RemovePeer(OrchRec(k), peerId, peers[k][peerId].n) EXCEPT !.res = "peer_close"],
                k, "peer_close", UserLeftMsg(peerId))

\* newPeer.on('error') of the instance in the map; its 'close' follows.
PeerError(k, peerId) ==
  /\ peerId \in DOMAIN peers[k]
  /\ LET O == RemovePeer(OrchRec(k), peerId, peers[k][peerId].n)
     IN OrchCommit([O EXCEPT !.detached = @ \cup {Detached(peerId, peers[k][peerId], FALSE)},
                             !.res = "peer_error"],
                   k, "peer_error", UserLeftMsg(peerId))

\* newPeer.on('close') of a destroyed instance that is no longer in the map
LateClose(k, z) ==
  /\ z \in detached[k]
  /\ ~z.alive
  /\ LET O == [OrchRec(k) EXCEPT !.detached = @ \ {z}]
     IN OrchCommit([RemovePeer(O, z.peerId, z.n) EXCEPT !.res = "late_close"],
                   k, "late_close", UserLeftMsg(z.peerId))

\* newPeer.on('stream') of the instance in the map.  An instance outside the
\* map emits none: a destroyed one is silent, and one that was never destroyed
\* was never in peersRef (NeverHeld), so case 'signal' never handed it a
\* remote description.
PeerStream(k, peerId) ==
  /\ peerId \in DOMAIN peers[k]
  /\ ~peers[k][peerId].stream
  /\ OrchCommit([OrchRec(k) EXCEPT !.peers[peerId].stream = TRUE,
                                   !.peers[peerId].phase = "connected",
                                   !.res = "stream"],
                k, "peer_stream", UserJoinedMsg(peerId))

\* replaceVideoTrack: replaceTrack is rejected for a peer the ref holds
ReplaceTrackFailed(k, peerId) ==
  /\ peerId \in DOMAIN peersRef[k]
  /\ OrchCommit(ReplaceTrackFallback(OrchRec(k), k, peerId), k, "replaceVideoTrack",
                ReconnectMsg(peerId, userIdRef[k]))

\* newPeer.on('signal') of the instance in the map: an offer, answer or
\* candidate with payload signalData goes to sendMessage.
PeerSignal(k, peerId, signalData) ==
  /\ peerId \in DOMAIN peers[k]
  /\ LET O == SendMessage(OrchRec(k), k, SignalMsg(peerId, signalData))
     IN OrchCommit([O EXCEPT !.peers[peerId].phase =
                                IF @ = "created" THEN "signaling" ELSE @,
                             !.res = "signal_out"],
                   k, "peer_signal", SignalMsg(peerId, signalData))

\* ------------------------------------------------------------ setVideoBitrate
\* rate = [status, bitrate, started, todo, cur, trace, max, noVideo, raised]:
\* started holds the peerIds of the map the call began on; a call is
\* "idle" (none made), "awaiting" (suspended at await setParameters for cur,
\* the PeerData still to visit in todo) or "done" (returned); trace lists
\* [peerId, outcome] for the peers visited in their order; max maps an
\* instance <<peerId, n>> to the maxBitrate its video sender was given;
\* noVideo holds the peerIds whose connection has no video sender; raised says
\* the call threw.
NoRate(noVideo) ==
  [status |-> "idle", bitrate |-> 0, started |-> {}, todo |-> <<>>, cur |-> <<>>, trace |-> <<>>,
   max |-> EmptyMap, noVideo |-> noVideo, raised |-> FALSE]

\* The orders in which a Map with the keys S can be walked.
Orders(S) ==
  {q \in [1..Cardinality(S) -> S] : \A i, j \in DOMAIN q : q[i] = q[j] => i = j}

\* peer._pc of an instance of page k: simple-peer drops it in destroy().
HasPc(k, p) ==
  \/ p.peerId \in DOMAIN peers[k] /\ peers[k][p.peerId].n = p.n
  \/ \E d \in detached[k] : d.peerId = p.peerId /\ d.n = p.n /\ d.alive

\* The for loop of setVideoBitrate from the head of todo up to the next await
\* (or the return): a peer without _pc or without a video sender is skipped
\* with continue.
RECURSIVE Walk(_, _)
Walk(rt, k) ==
  IF rt.todo = <<>> THEN [rt EXCEPT !.status = "done", !.cur = <<>>]
  ELSE LET p == Head(rt.todo) IN
    IF ~HasPc(k, p)
    THEN Walk([rt EXCEPT !.todo = Tail(@),
                         !.trace = Append(@, [peerId |-> p.peerId, outcome |-> "no_pc"])], k)
    ELSE IF p.peerId \in rt.noVideo
    THEN Walk([rt EXCEPT !.todo = Tail(@),
                         !.trace = Append(@, [peerId |-> p.peerId, outcome |-> "no_sender"])], k)
    ELSE [rt EXCEPT !.status = "awaiting", !.cur = <<p>>, !.todo = Tail(@)]

\* the catch of the try around the parameter update, and the same with the
\* error leaving the function
CaughtRethrown(rt, k) ==
  [rt EXCEPT !.status = "done", !.cur = <<>>, !.todo = <<>>, !.raised = TRUE]
Caught(rt, k) == Walk(rt, k)

\* A call that throws away the map it walked.
BitrateStartClearing(k, bitrate, order) ==
  /\ rate.status \in {"idle", "done"}
  /\ order \in Orders(DOMAIN peersRef[k])
  /\ rate' = [rate EXCEPT !.status = "done", !.bitrate = bitrate, !.trace = <<>>,
                          !.started = {}, !.todo = <<>>, !.cur = <<>>]
  /\ peersRef' = [peersRef EXCEPT ![k] = EmptyMap]
  /\ last' = Step("setVideoBitrate", k, NoMsg, "none", EmptyQ)
  /\ UNCHANGED <<connectionState, isJoined, userIdRef, roomIdRef, localStream,
                 peerCreatorRef, peers, gen, detached>>

\* setVideoBitrate(bitrate) is called on page k: the loop starts over
\* peersRef.current.values().
BitrateStart(k, bitrate, order) ==
  /\ rate.status \in {"idle", "done"}
  /\ order \in Orders(DOMAIN peersRef[k])
  /\ LET todo == [i \in DOMAIN order |->
                   [peerId |-> order[i], n |-> peersRef[k][order[i]].n]]
     IN rate' = Walk([rate EXCEPT !.bitrate = bitrate, !.todo = todo,
                                  !.started = DOMAIN peersRef[k],
                                  !.trace = <<>>, !.raised = FALSE], k)
  /\ last' = Step("setVideoBitrate", k, NoMsg, "none", EmptyQ)
  /\ UNCHANGED <<connectionState, isJoined, userIdRef, roomIdRef, localStream,
                 peerCreatorRef, peers, peersRef, gen, detached>>

\* await videoSender.setParameters(parameters) settles for the peer the call
\* is suspended at: fulfilled (only on a connection that is not closed) or
\* rejected; the loop goes on from there.
BitrateSettled(k, ok) ==
  /\ rate.status = "awaiting"
  /\ LET p == rate.cur[1] IN
       IF ok
       THEN /\ HasPc(k, p)
            /\ rate' = Walk([rate EXCEPT
                   !.trace = Append(@, [peerId |-> p.peerId, outcome |-> "set"]),
                   !.max = MapSet(@, <<p.peerId, p.n>>, rate.bitrate)], k)
       ELSE rate' = Caught([rate EXCEPT
                   !.trace = Append(@, [peerId |-> p.peerId, outcome |-> "rejected"])], k)
  /\ last' = Step("setParameters", k, NoMsg, "none", EmptyQ)
  /\ UNCHANGED <<connectionState, isJoined, userIdRef, roomIdRef, localStream,
                 peerCreatorRef, peers, peersRef, gen, detached>>

\* ----------------------------------------------------------- initial state
Init ==
  /\ clients = EmptyMap
  /\ rooms = EmptyMap
  /\ wsToUserId = EmptyMap
  /\ readyState = [c \in Chans |-> "CLOSED"]
  /\ toRelay = EmptyQ
  /\ toClient = EmptyQ
  /\ connectionState = [k \in Chans |-> "CONNECTING"]
  /\ isJoined = [k \in Chans |-> FALSE]
  /\ userIdRef = [k \in Chans |-> None]
  /\ roomIdRef = [k \in Chans |-> None]
  /\ localStream = [k \in Chans |-> FALSE]
  /\ peerCreatorRef = [k \in Chans |-> FALSE]
  /\ peers = [k \in Chans |-> EmptyMap]
  /\ peersRef = [k \in Chans |-> EmptyMap]
  /\ gen = [k \in Chans |-> [x \in Ids |-> 0]]
  /\ detached = [k \in Chans |-> {}]
  /\ sigSeq = 0
  /\ retired = {}
  /\ rate = NoRate({})
  /\ initiating = [k \in Chans |-> <<>>]
  /\ dropped = {}
  /\ joinedOn = EmptyMap
  /\ latest = EmptyMap
  /\ joinOrder = <<>>
  /\ last = Step("init", 0, NoMsg, "none", EmptyQ)

\* --------------------------------------------- the relay under any clients
\* SpecRelay drives the relay with every message a client can put on the
\* wire, whatever the client is; what the relay writes is in last.sent and is
\* taken off the wire at once (toClient stays empty).
RelayChans == {1, 2}

NoTypeMsg == [type |-> "undefined"]   \* an object without a type field
NullMsg == [type |-> "#null"]         \* the JSON text null

EnvMsgs ==
  {JoinMsg(u, r) : u \in Ids, r \in Rooms}
    \cup {JoinMsg(None, "r1"), JoinMsg("a", None)}
    \cup {SignalMsg("a", NoData), SignalMsg(None, Data(0)), SignalMsg("a", Data(0))}
    \cup {ReconnectMsg("a", "b"), [type |-> "leave"], [type |-> "#notjson"]}
    \cup {NoTypeMsg, NullMsg}

EnvConnect(ws) ==
  /\ RelayConnection(ws)
  /\ UNCHANGED <<toRelay, toClient, sigSeq, retired, rate, initiating>>
  /\ UNCHANGED orchVars

EnvMessage(ws) ==
  /\ \E m \in EnvMsgs : RelayMessage(ws, m)
  /\ UNCHANGED <<toRelay, toClient, sigSeq, retired, rate, initiating>>
  /\ UNCHANGED orchVars

\* A client sends a signal with a payload never used before.
EnvSignal(ws) ==
  /\ sigSeq < MaxSignals
  /\ sigSeq' = sigSeq + 1
  /\ UNCHANGED <<retired, rate, initiating>>
  /\ \E u \in Ids : RelayMessage(ws, SignalMsg(u, Data(sigSeq + 1)))
  /\ UNCHANGED <<toRelay, toClient>>
  /\ UNCHANGED orchVars

EnvError(ws) ==
  /\ RelayError(ws)
  /\ UNCHANGED <<toRelay, toClient, sigSeq, retired, rate, initiating>>
  /\ UNCHANGED orchVars

EnvClose(ws) ==
  /\ RelayClose(ws)
  /\ UNCHANGED <<toRelay, toClient, sigSeq, retired, rate, initiating>>
  /\ UNCHANGED orchVars

NextRelay ==
  \E ws \in RelayChans :
    \/ EnvConnect(ws)
    \/ EnvMessage(ws)
    \/ EnvError(ws)
    \/ EnvClose(ws)

SpecRelay == Init /\ [][NextRelay]_vars

\* SpecSignal: the same relay, the clients joining and sending signals whose
\* payloads are all different, so that a payload seen on the wire names the
\* signal it came from.
EnvJoin(ws) ==
  /\ \E u \in Ids, r \in Rooms : RelayMessage(ws, JoinMsg(u, r))
  /\ UNCHANGED <<toRelay, toClient, sigSeq, retired, rate, initiating>>
  /\ UNCHANGED orchVars

NextSignal ==
  \E ws \in RelayChans :
    \/ EnvConnect(ws)
    \/ EnvJoin(ws)
    \/ EnvSignal(ws)
    \/ EnvClose(ws)

SpecSignal == Init /\ [][NextSignal]_vars

\* SpecTalk: the relay with three sockets, the client on socket k joining as
\* IdOf(k) and sending signals whose payloads are all different.
IdOf(k) == CASE k = 1 -> "a" [] k = 2 -> "b" [] OTHER -> "c"

TalkConnect(ws) ==
  /\ RelayConnection(ws)
  /\ UNCHANGED <<toRelay, toClient, sigSeq, retired, rate, initiating>>
  /\ UNCHANGED orchVars

TalkJoin(ws) ==
  /\ \E r \in Rooms : RelayMessage(ws, JoinMsg(IdOf(ws), r))
  /\ UNCHANGED <<toRelay, toClient, sigSeq, retired, rate, initiating>>
  /\ UNCHANGED orchVars

NextTalk ==
  \E ws \in Chans :
    \/ TalkConnect(ws)
    \/ TalkJoin(ws)
    \/ EnvSignal(ws)
    \/ EnvClose(ws)

SpecTalk == Init /\ [][NextTalk]_vars

\* SpecForge: the same three clients, whose signals carry a senderId of
\* their own choosing in the payload, next to receiverId and signalData.
ForgedSignalMsg(receiverId, signalData, senderId) ==
  [type |-> "signal", receiverId |-> receiverId, signalData |-> signalData,
   senderId |-> senderId]

EnvForgedSignal(ws) ==
  /\ sigSeq < MaxSignals
  /\ sigSeq' = sigSeq + 1
  /\ UNCHANGED <<retired, rate, initiating>>
  /\ \E u, claimed \in Ids : RelayMessage(ws, ForgedSignalMsg(u, Data(sigSeq + 1), claimed))
  /\ UNCHANGED <<toRelay, toClient>>
  /\ UNCHANGED orchVars

NextForge ==
  \E ws \in Chans :
    \/ TalkConnect(ws)
    \/ TalkJoin(ws)
    \/ EnvForgedSignal(ws)
    \/ EnvClose(ws)

SpecForge == Init /\ [][NextForge]_vars

\* SpecRoom: the relay with three sockets, the clients joining and going
\* away.  The client on socket k joins as IdOf(k); the one on socket 1 also
\* as "b", so that a socket is reused under a second identifier and an
\* identifier is asked for while in use.  retired collects the rooms the
\* relay has deleted.
RoomJoins(ws) ==
  {JoinMsg(u, r) : u \in (IF ws = 1 THEN {"a", "b"} ELSE {IdOf(ws)}), r \in Rooms}
    \cup {JoinMsg(None, "r1"), JoinMsg("a", None)}

Retire ==
  /\ retired' = retired \cup (DOMAIN rooms \ DOMAIN rooms')
  /\ UNCHANGED <<rate, initiating>>

RoomJoin(ws) ==
  /\ \E m \in RoomJoins(ws) : RelayMessage(ws, m)
  /\ Retire
  /\ UNCHANGED <<toRelay, toClient, sigSeq>>
  /\ UNCHANGED orchVars

RoomError(ws) ==
  /\ RelayError(ws)
  /\ Retire
  /\ UNCHANGED <<toRelay, toClient, sigSeq>>
  /\ UNCHANGED orchVars

RoomClose(ws) ==
  /\ RelayClose(ws)
  /\ Retire
  /\ UNCHANGED <<toRelay, toClient, sigSeq>>
  /\ UNCHANGED orchVars

NextRoom ==
  \E ws \in Chans :
    \/ TalkConnect(ws)
    \/ RoomJoin(ws)
    \/ RoomError(ws)
    \/ RoomClose(ws)

SpecRoom == Init /\ [][NextRoom]_vars

\* ------------------------------- one orchestrator under any relay messages
\* SpecOrch drives orchestrator 1 (local identifier "a") with every message a
\* relay can put on the wire and with the events of its connections and of
\* the application; what it hands to sendMessage is in last.sent.
OrchMsgs ==
  {ExistingRoomMsg(S) : S \in {{}, {"b"}, {"b", "c"}, {"a", "c"}}}
    \cup {UserJoinedMsg(x) : x \in Ids}
    \cup {UserLeftMsg(x) : x \in Ids}
    \cup {RelayedSignalMsg(x, Data(0)) : x \in {"b", "c"}}
    \cup {ErrorMsg("User ID is already in use.", "a")}
    \cup {ReconnectMsg("a", "b"), ReconnectMsg("c", "b"), ReconnectMsg("a", "a")}

\* socket.onopen
SocketOpen(k) ==
  /\ connectionState[k] = "CONNECTING"
  /\ connectionState' = [connectionState EXCEPT ![k] = "OPEN"]

\* socket.onclose: the state becomes CLOSED and ws.current null; onClose does nothing
SocketClose(k) ==
  /\ connectionState[k] = "OPEN"
  /\ connectionState' = [connectionState EXCEPT ![k] = "CLOSED"]

OrchOnly == UNCHANGED <<clients, rooms, wsToUserId, readyState, toRelay, toClient,
                        dropped, joinedOn, latest, joinOrder>>

TestOpen(k) ==
  /\ SocketOpen(k)
  /\ last' = Step("onopen", k, NoMsg, "none", EmptyQ)
  /\ UNCHANGED <<isJoined, userIdRef, roomIdRef, localStream, peerCreatorRef,
                 peers, peersRef, gen, detached, sigSeq, retired, rate, initiating>>
  /\ OrchOnly

TestSocketClose(k) ==
  /\ SocketClose(k)
  /\ last' = Step("onclose", k, NoMsg, "none", EmptyQ)
  /\ UNCHANGED <<isJoined, userIdRef, roomIdRef, localStream, peerCreatorRef,
                 peers, peersRef, gen, detached, sigSeq, retired, rate, initiating>>
  /\ OrchOnly

TestMessage(k) ==
  /\ connectionState[k] = "OPEN"
  /\ \E m \in OrchMsgs : OrchMessage(k, m)
  /\ UNCHANGED <<connectionState, localStream, peerCreatorRef, sigSeq, retired, rate, initiating>>
  /\ OrchOnly

TestJoinRoom(k) ==
  /\ \E r \in {"r1", None}, u \in {"a", None} : OrchJoinRoom(k, r, u)
  /\ UNCHANGED <<connectionState, localStream, peerCreatorRef, sigSeq, retired, rate, initiating>>
  /\ OrchOnly

TestLeaveRoom(k) ==
  /\ OrchLeaveRoom(k)
  /\ UNCHANGED <<connectionState, localStream, peerCreatorRef, sigSeq, retired, rate, initiating>>
  /\ OrchOnly

TestEffect(k) ==
  /\ Effect(k)
  /\ UNCHANGED <<sigSeq, retired, rate, initiating>>
  /\ OrchOnly

TestGetMedia(k) ==
  /\ GetMedia(k)
  /\ UNCHANGED <<sigSeq, retired, rate, initiating>>
  /\ OrchOnly

TestPeerClose(k) ==
  /\ \E x \in Ids : PeerClose(k, x)
  /\ UNCHANGED <<connectionState, localStream, peerCreatorRef, sigSeq, retired, rate, initiating>>
  /\ OrchOnly

TestPeerError(k) ==
  /\ \E x \in Ids : PeerError(k, x)
  /\ UNCHANGED <<connectionState, localStream, peerCreatorRef, sigSeq, retired, rate, initiating>>
  /\ OrchOnly

TestLateClose(k) ==
  /\ \E z \in detached[k] : LateClose(k, z)
  /\ UNCHANGED <<connectionState, localStream, peerCreatorRef, sigSeq, retired, rate, initiating>>
  /\ OrchOnly

TestPeerStream(k) ==
  /\ \E x \in Ids : PeerStream(k, x)
  /\ UNCHANGED <<connectionState, localStream, peerCreatorRef, sigSeq, retired, rate, initiating>>
  /\ OrchOnly

TestPeerSignal(k) ==
  /\ \E x \in Ids : PeerSignal(k, x, Data(0))
  /\ UNCHANGED <<connectionState, localStream, peerCreatorRef, sigSeq, retired, rate, initiating>>
  /\ OrchOnly

NextOrch ==
  \/ TestOpen(1)
  \/ TestSocketClose(1)
  \/ TestMessage(1)
  \/ TestJoinRoom(1)
  \/ TestLeaveRoom(1)
  \/ TestEffect(1)
  \/ TestGetMedia(1)
  \/ TestPeerClose(1)
  \/ TestPeerError(1)
  \/ TestLateClose(1)
  \/ TestPeerStream(1)
  \/ TestPeerSignal(1)

SpecOrch == Init /\ [][NextOrch]_vars

\* SpecBitrate: orchestrator 1, joined as "a" with connections to some of
\* "b" and "c" in any phase of their negotiation, some of them without a video
\* sender; the application sets the video bitrate while connections close,
\* renders happen and the room is left.
Bitrates == {1, 2}

PeerPhases ==
  {[n |-> 1, initiator |-> i, stream |-> (ph = "connected"), phase |-> ph] :
     i \in BOOLEAN, ph \in {"created", "signaling", "connected"}}

InitBitrate ==
  /\ clients = EmptyMap
  /\ rooms = EmptyMap
  /\ wsToUserId = EmptyMap
  /\ readyState = [c \in Chans |-> "CLOSED"]
  /\ toRelay = EmptyQ
  /\ toClient = EmptyQ
  /\ connectionState = [k \in Chans |-> IF k = 1 THEN "OPEN" ELSE "CONNECTING"]
  /\ isJoined = [k \in Chans |-> k = 1]
  /\ userIdRef = [k \in Chans |-> IF k = 1 THEN "a" ELSE None]
  /\ roomIdRef = [k \in Chans |-> IF k = 1 THEN "r1" ELSE None]
  /\ localStream = [k \in Chans |-> k = 1]
  /\ peerCreatorRef = [k \in Chans |-> k = 1]
  /\ \E S \in SUBSET {"b", "c"} : \E m \in [S -> PeerPhases] :
       /\ peers = [k \in Chans |-> IF k = 1 THEN m ELSE EmptyMap]
       /\ peersRef = peers
       /\ gen = [k \in Chans |-> [x \in Ids |-> IF k = 1 /\ x \in S THEN 1 ELSE 0]]
  /\ detached = [k \in Chans |-> {}]
  /\ sigSeq = 0
  /\ retired = {}
  /\ \E V \in SUBSET {"b", "c"} : rate = NoRate(V)
  /\ initiating = [k \in Chans |-> <<>>]
  /\ dropped = {}
  /\ joinedOn = EmptyMap
  /\ latest = EmptyMap
  /\ joinOrder = <<>>
  /\ last = Step("init", 0, NoMsg, "none", EmptyQ)

TestSetVideoBitrate(k) ==
  /\ \E b \in Bitrates, order \in Orders(DOMAIN peersRef[k]) : BitrateStart(k, b, order)
  /\ UNCHANGED <<sigSeq, retired, initiating>>
  /\ OrchOnly

TestBitrateSettled(k) ==
  /\ \E ok \in BOOLEAN : BitrateSettled(k, ok)
  /\ UNCHANGED <<sigSeq, retired, initiating>>
  /\ OrchOnly

NextBitrate ==
  \/ TestSetVideoBitrate(1)
  \/ TestBitrateSettled(1)
  \/ TestPeerClose(1)
  \/ TestLateClose(1)
  \/ TestEffect(1)
  \/ TestLeaveRoom(1)

SpecBitrate == InitBitrate /\ [][NextBitrate]_vars

\* SpecJoin: page 1 and its orchestrator while the socket opens and closes.
\* The user starts a meeting or joins one (initiateJoin), which waits for the
\* camera and then calls the joinRoom of the render in which it started; the
\* application also calls joinRoom and leaveRoom directly.
\* handleNewMeeting / handleJoinExistingRoom -> initiateJoin up to its await
InitiateJoin(k, roomId) ==
  /\ connectionState[k] = "OPEN"
  /\ initiating[k] = <<>>
  /\ ~isJoined[k]
  /\ initiating' = [initiating EXCEPT
                      ![k] = <<[closure |-> Closure(OrchRec(k), k), roomId |-> roomId]>>]
  /\ last' = Step("initiateJoin", k, NoMsg, "none", EmptyQ)
  /\ UNCHANGED <<connectionState, isJoined, userIdRef, roomIdRef, localStream,
                 peerCreatorRef, peers, peersRef, gen, detached>>

\* getMedia() resolved with a stream: initiateJoin goes on to rtcJoinRoom
MediaAcquired(k) ==
  /\ initiating[k] # <<>>
  /\ LET i == initiating[k][1]
     IN OrchCommit(JoinRoomFrom(OrchRec(k), k, i.roomId, IdOf(k), i.closure),
                   k, "joinRoom", JoinMsg(IdOf(k), i.roomId))
  /\ initiating' = [initiating EXCEPT ![k] = <<>>]
  /\ localStream' = [localStream EXCEPT ![k] = TRUE]
  /\ UNCHANGED <<connectionState, peerCreatorRef>>

\* getMedia() rejected: initiateJoin's catch
MediaRefused(k) ==
  /\ initiating[k] # <<>>
  /\ initiating' = [initiating EXCEPT ![k] = <<>>]
  /\ last' = Step("getMedia_failed", k, NoMsg, "none", EmptyQ)
  /\ UNCHANGED <<connectionState, isJoined, userIdRef, roomIdRef, localStream,
                 peerCreatorRef, peers, peersRef, gen, detached>>

JoinOnly == UNCHANGED <<sigSeq, retired, rate>> /\ OrchOnly

TestJoinRoomIn(k) ==
  /\ \E r \in Rooms \cup {None} : OrchJoinRoom(k, r, IdOf(k))
  /\ UNCHANGED <<connectionState, localStream, peerCreatorRef, initiating>>
  /\ JoinOnly

NextJoin ==
  \/ TestOpen(1)
  \/ TestSocketClose(1)
  \/ \E r \in Rooms : InitiateJoin(1, r) /\ JoinOnly
  \/ MediaAcquired(1) /\ JoinOnly
  \/ MediaRefused(1) /\ JoinOnly
  \/ TestJoinRoomIn(1)
  \/ TestLeaveRoom(1)
  \/ TestEffect(1)

SpecJoin == Init /\ [][NextJoin]_vars

\* ------------------------------------------- orchestrators and the relay
\* Orchestrator k runs in page k, over socket k, under the identifier IdOf(k),
\* in room "r1".  What a side sends is queued for the other side in order; a
\* message to a side that has closed its half of the socket is lost.
\* The relay's writes of the step just taken, queued for the pages still open.
\* And the same with the relay's writes overtaking what is queued.
ToClientsOvertaking(q) ==
  [c \in Chans |-> IF connectionState'[c] = "OPEN" THEN last'.sent[c] \o q[c] ELSE <<>>]
ToClients(q) ==
  [c \in Chans |-> IF connectionState'[c] = "OPEN" THEN q[c] \o last'.sent[c] ELSE <<>>]

\* Page k's sends of the step just taken, queued for the relay.
ToRelay(k, q) ==
  [q EXCEPT ![k] = IF readyState[k] = "CLOSED" THEN <<>> ELSE @ \o last'.sent[k]]

QueuesOk ==
  \A c \in Chans : Len(toRelay'[c]) <= MaxQueue /\ Len(toClient'[c]) <= MaxQueue

RelaySide == UNCHANGED <<isJoined, userIdRef, roomIdRef, localStream, peerCreatorRef,
                         peers, peersRef, gen, detached, sigSeq, retired, rate, initiating>>
PageSide == UNCHANGED <<clients, rooms, wsToUserId, readyState, dropped, joinedOn,
                        latest, joinOrder, sigSeq, retired, rate, initiating>>

\* new WebSocket(url): 'connection' at the relay, onopen in the page
Connect(k) ==
  /\ connectionState[k] = "CONNECTING"
  /\ SocketOpen(k)
  /\ RelayConnection(k)
  /\ UNCHANGED <<toRelay, toClient>>
  /\ RelaySide

\* initiateJoin of the page: media acquired, then joinRoom
AppJoinRoom(k) ==
  /\ connectionState[k] = "OPEN"
  /\ ~isJoined[k]
  /\ localStream' = [localStream EXCEPT ![k] = TRUE]
  /\ OrchJoinRoom(k, "r1", IdOf(k))
  /\ toRelay' = ToRelay(k, toRelay)
  /\ UNCHANGED <<connectionState, peerCreatorRef, toClient>>
  /\ PageSide
  /\ QueuesOk

\* handleLeaveRoom of the page: leaveRoom, then the local stream is dropped
AppLeaveRoom(k) ==
  /\ isJoined[k]
  /\ OrchLeaveRoom(k)
  /\ localStream' = [localStream EXCEPT ![k] = FALSE]
  /\ UNCHANGED <<connectionState, peerCreatorRef, toRelay, toClient>>
  /\ PageSide

Render(k) ==
  /\ Effect(k)
  /\ UNCHANGED <<toRelay, toClient>>
  /\ PageSide

\* The relay handles the oldest message of socket k.
RelayReceive(k) ==
  /\ toRelay[k] # <<>>
  /\ RelayMessage(k, Head(toRelay[k]))
  /\ toRelay' = [toRelay EXCEPT ![k] = Tail(@)]
  /\ UNCHANGED connectionState
  /\ toClient' = ToClients(toClient)
  /\ RelaySide
  /\ QueuesOk

\* Page k handles the oldest message of its socket.
ClientReceive(k) ==
  /\ toClient[k] # <<>>
  /\ connectionState[k] = "OPEN"
  /\ OrchMessage(k, Head(toClient[k]))
  /\ toClient' = [toClient EXCEPT ![k] = Tail(@)]
  /\ toRelay' = ToRelay(k, toRelay)
  /\ UNCHANGED <<connectionState, localStream, peerCreatorRef>>
  /\ PageSide

\* Page k switches camera and a connection rejects the new track.
TrackRejected(k) ==
  /\ sigSeq < MaxSignals
  /\ sigSeq' = sigSeq + 1
  /\ UNCHANGED <<retired, rate, initiating>>
  /\ \E x \in DOMAIN peersRef[k] : ReplaceTrackFailed(k, x)
  /\ toRelay' = ToRelay(k, toRelay)
  /\ UNCHANGED <<connectionState, localStream, peerCreatorRef, toClient>>
  /\ UNCHANGED <<clients, rooms, wsToUserId, readyState, dropped, joinedOn, latest, joinOrder>>
  /\ QueuesOk

\* The 'close' event of a destroyed connection of page k.
ZombieClosed(k) ==
  /\ \E z \in detached[k] : LateClose(k, z)
  /\ UNCHANGED <<connectionState, localStream, peerCreatorRef, toRelay, toClient>>
  /\ PageSide

\* The page's half of socket k closes (network loss, tab closed): onclose.
Drop(k) ==
  /\ SocketClose(k)
  /\ toClient' = [toClient EXCEPT ![k] = <<>>]
  /\ last' = Step("onclose", k, NoMsg, "none", EmptyQ)
  /\ UNCHANGED <<isJoined, userIdRef, roomIdRef, localStream, peerCreatorRef,
                 peers, peersRef, gen, detached, toRelay>>
  /\ PageSide

\* onclose in page k after the relay closed the socket.
ServerClosed(k) ==
  /\ readyState[k] # "OPEN"
  /\ Drop(k)

\* The relay's 'close' event of socket k, after the messages that arrived
\* ahead of it: the page's half closed, or the relay called ws.close().
NetClose(k) ==
  /\ connectionState[k] = "CLOSED" \/ readyState[k] = "CLOSING"
  /\ toRelay[k] = <<>>
  /\ RelayClose(k)
  /\ UNCHANGED <<connectionState, toRelay>>
  /\ toClient' = ToClients(toClient)
  /\ RelaySide
  /\ QueuesOk

\* The page is loaded again once its socket is gone at both ends: a new
\* orchestrator, a new socket.
Reload(k) ==
  /\ connectionState[k] = "CLOSED"
  /\ readyState[k] = "CLOSED"
  /\ connectionState' = [connectionState EXCEPT ![k] = "CONNECTING"]
  /\ isJoined' = [isJoined EXCEPT ![k] = FALSE]
  /\ userIdRef' = [userIdRef EXCEPT ![k] = None]
  /\ roomIdRef' = [roomIdRef EXCEPT ![k] = None]
  /\ localStream' = [localStream EXCEPT ![k] = FALSE]
  /\ peerCreatorRef' = [peerCreatorRef EXCEPT ![k] = FALSE]
  /\ peers' = [peers EXCEPT ![k] = EmptyMap]
  /\ peersRef' = [peersRef EXCEPT ![k] = EmptyMap]
  /\ gen' = [gen EXCEPT ![k] = [x \in Ids |-> 0]]
  /\ detached' = [detached EXCEPT ![k] = {}]
  /\ toRelay' = [toRelay EXCEPT ![k] = <<>>]
  /\ toClient' = [toClient EXCEPT ![k] = <<>>]
  /\ last' = Step("reload", k, NoMsg, "none", EmptyQ)
  /\ PageSide

\* Spec: two pages and the relay.  Either page joins and is loaded again once
\* its socket is gone; the user of page 1 leaves and joins again without
\* reloading, and switches camera; page 2 loses its socket at any time.
Pages == {1, 2}
Leavers == {1}
Droppers == {2}

Next ==
  \E k \in Pages :
    \/ Connect(k)
    \/ AppJoinRoom(k)
    \/ k \in Leavers /\ AppLeaveRoom(k)
    \/ k \in Leavers /\ TrackRejected(k)
    \/ Render(k)
    \/ RelayReceive(k)
    \/ ClientReceive(k)
    \/ k \in Droppers /\ Drop(k)
    \/ ServerClosed(k)
    \/ NetClose(k)
    \/ Reload(k)

Spec == Init /\ [][Next]_vars

\* SpecCall: three pages and the relay in a call where nobody leaves by hand:
\* the pages join, page 2 loses its socket and the connections to it close.
\* A page handles an event after the effects of its last render have run.
Rendered(k) == peersRef[k] = peers[k] /\ peerCreatorRef[k] = localStream[k]

\* A connection of page k closes because the page at its other end is gone.
RemoteGone(k) ==
  /\ \E x \in DOMAIN peers[k] :
        /\ \E c \in Chans : IdOf(c) = x /\ connectionState[c] = "CLOSED"
        /\ PeerClose(k, x)
  /\ UNCHANGED <<connectionState, localStream, peerCreatorRef, toRelay, toClient>>
  /\ PageSide

NextCall ==
  \E k \in Chans :
    \/ Connect(k)
    \/ Rendered(k) /\ AppJoinRoom(k)
    \/ Render(k)
    \/ RelayReceive(k)
    \/ Rendered(k) /\ ClientReceive(k)
    \/ Rendered(k) /\ RemoteGone(k)
    \/ Rendered(k) /\ ZombieClosed(k)
    \/ k \in Droppers /\ Drop(k)
    \/ NetClose(k)

SpecCall == Init /\ [][NextCall]_vars

\* FairCall: the same call, where a page's event loop gets to every effect and
\* to every message its open socket holds.
PageTurn(k) == Render(k) \/ (Rendered(k) /\ ClientReceive(k))

FairCall == SpecCall /\ \A k \in Chans : WF_vars(PageTurn(k))

\* SpecOrder: three pages and the relay in a call where the connections of
\* the pages emit offers, answers and candidates, each with a payload of its
\* own, numbered in the order they are emitted.
\* newPeer.on('signal') in page k: the payload goes to the socket
PageSignal(k) ==
  /\ sigSeq < MaxSent
  /\ sigSeq' = sigSeq + 1
  /\ UNCHANGED <<retired, rate, initiating>>
  /\ \E x \in DOMAIN peers[k] : PeerSignal(k, x, Data(sigSeq + 1))
  /\ toRelay' = ToRelay(k, toRelay)
  /\ UNCHANGED <<connectionState, localStream, peerCreatorRef, toClient>>
  /\ UNCHANGED <<clients, rooms, wsToUserId, readyState, dropped, joinedOn, latest, joinOrder>>
  /\ QueuesOk

\* Page 1 handles an event whether or not the effects of its last render have
\* run; the other pages after them.
Prompt(k) == k = 1 \/ Rendered(k)

NextOrder ==
  \E k \in Chans :
    \/ Connect(k)
    \/ Rendered(k) /\ AppJoinRoom(k)
    \/ Render(k)
    \/ Prompt(k) /\ PageSignal(k)
    \/ RelayReceive(k)
    \/ Prompt(k) /\ ClientReceive(k)

SpecOrder == Init /\ [][NextOrder]_vars

\* SpecSwap: three pages and the relay in a call where nobody leaves and
\* page 1 switches its camera: replaceTrack is rejected for a peer.
NextSwap ==
  \E k \in Chans :
    \/ Connect(k)
    \/ Rendered(k) /\ AppJoinRoom(k)
    \/ Render(k)
    \/ RelayReceive(k)
    \/ Rendered(k) /\ ClientReceive(k)
    \/ k \in Leavers /\ Rendered(k) /\ TrackRejected(k)
    \/ Rendered(k) /\ ZombieClosed(k)

SpecSwap == Init /\ [][NextSwap]_vars

\* FairSwap: the same, where the event loops of the pages and of the relay
\* keep running as long as one of them has something to do.
FairSwap == SpecSwap /\ WF_vars(NextSwap)

\* ------------------------------------------------------------------ claims
Members(r) == IF r \in DOMAIN rooms THEN rooms[r] ELSE {}

\* The ids whose latest successful join was into room r over a socket that
\* has neither closed nor errored since.
JoinedNotClosed(r) == {u \in DOMAIN joinedOn : joinedOn[u].roomId = r}

\* ... and whose socket has not been used for a later successful join.
JoinedNotSuperseded(r) ==
  {u \in JoinedNotClosed(r) :
     joinedOn[u].ws \in DOMAIN latest /\ latest[joinedOn[u].ws] = u}

\* C1 as stated: every room's member set is exactly the set of identifiers
\* that joined it and whose channel has not closed or errored since.
C1_Original == \A r \in Rooms : Members(r) = JoinedNotClosed(r)

\* C1 amended: every room's member set is exactly the set of identifiers that
\* joined it and whose channel has neither closed, errored, nor been used for
\* a later successful join under another identifier.
C1_MembershipConsistency == \A r \in Rooms : Members(r) = JoinedNotSuperseded(r)

\* A close or error has just removed a member from a room others remain in.
C1_Witness ==
  /\ last.op \in {"close", "error"}
  /\ \E ws \in Chans : last.sent[ws] # <<>>
  /\ \E r \in Rooms : Members(r) # {} /\ Members(r) = JoinedNotSuperseded(r)

\* C2 as stated: a join under a registered identifier is answered with an
\* error and changes no room's member set, neither in the step that handles
\* it nor in the close event of the socket the relay closed for it.
C2_DuplicateJoinNeverMutatesRooms ==
  [][ /\ last'.res = "join_in_use" =>
           /\ rooms' = rooms
           /\ readyState[last'.chan] = "OPEN" =>
                \E i \in 1..Len(last'.sent[last'.chan]) :
                   last'.sent[last'.chan][i].type = "error"
      /\ (last.res = "join_in_use" /\ last'.op = "close" /\ last'.chan = last.chan)
           => rooms' = rooms ]_vars

\* C3: no two sockets are registered under one identifier, and a join under a
\* registered identifier is answered "already in use" (on a socket still
\* open), leaves the joining socket not OPEN and leaves the registry as it was.
C3_OneEntryPerIdentifier ==
  /\ [](\A c1, c2 \in DOMAIN wsToUserId :
           wsToUserId[c1] = wsToUserId[c2] => c1 = c2)
  /\ [](\A u \in DOMAIN clients :
           clients[u].ws \in DOMAIN wsToUserId /\ wsToUserId[clients[u].ws] = u)
  /\ [][ ( /\ last'.op = "message"
           /\ last'.msg.type = "join"
           /\ last'.msg.userId # None /\ last'.msg.roomId # None
           /\ last'.msg.userId \in DOMAIN clients )
         => /\ readyState[last'.chan] = "OPEN" =>
                 last'.sent[last'.chan] =
                   <<ErrorMsg("User ID is already in use.", last'.msg.userId)>>
            /\ readyState'[last'.chan] # "OPEN"
            /\ clients' = clients
            /\ rooms' = rooms ]_vars

\* A join was rejected as a duplicate while another socket holds the identifier.
C3_Witness ==
  /\ last.res = "join_in_use"
  /\ last.msg.userId \in DOMAIN clients
  /\ clients[last.msg.userId].ws # last.chan
  /\ readyState[last.chan] = "CLOSING"

\* C4: every member of every room is a key of clients.
C4_RoomMembersAreRegistered ==
  \A r \in DOMAIN rooms : rooms[r] \subseteq DOMAIN clients

\* A disconnect has just left a room with a remaining member.
C4_Witness ==
  /\ last.op \in {"close", "error"}
  /\ \E r \in DOMAIN rooms : rooms[r] # {}
  /\ \E ws \in Chans : \E i \in 1..Len(last.sent[ws]) : last.sent[ws][i].type = "user_left"

\* The receiver's socket can be written to.
Writable(receiverId) ==
  receiverId \in DOMAIN clients /\ readyState[clients[receiverId].ws] = "OPEN"

\* C7: a well-formed signal from a registered sender to a receiver that is
\* not registered, or whose socket is not OPEN, writes nothing to any socket
\* (no error to the sender either), changes nothing in the relay, and its
\* payload is never written to a socket afterwards.
C7_SignalToUnknownReceiverIsNoOp ==
  /\ [][ ( /\ last'.op = "message"
           /\ last'.msg.type = "signal"
           /\ last'.chan \in DOMAIN wsToUserId
           /\ last'.msg.receiverId # None /\ last'.msg.signalData # NoData
           /\ ~Writable(last'.msg.receiverId) )
         => /\ last'.sent = EmptyQ
            /\ UNCHANGED <<clients, rooms, wsToUserId, readyState>> ]_vars
  /\ [](\A ws \in Chans : \A i \in 1..Len(last.sent[ws]) :
          last.sent[ws][i].type = "signal" =>
             \A d \in dropped : d.data # last.sent[ws][i].signalData)

\* The receiver of a dropped signal has joined since and can be written to.
C7_Witness ==
  \E d \in dropped : d.data # Data(0) /\ Writable(d.receiverId)

\* C8: handling user_left{X} leaves no record for X in the peer map, whatever
\* the phase of X's connection was, and destroy() was called on the instance
\* the record held, which is from then on a destroyed instance.
C8_UserLeftRemovesPeer ==
  [][ (last'.op = "onmessage" /\ last'.msg.type = "user_left")
      => LET k == last'.chan
             X == last'.msg.userId
         IN /\ X \notin DOMAIN peers'[k]
            /\ X \in DOMAIN peers[k] =>
                 /\ Destroyed(X, peers[k][X]) \in last'.destroyed
                 /\ Detached(X, peers[k][X], FALSE) \in detached'[k] ]_vars

\* user_left has just removed a connected peer.
C8_Witness ==
  /\ last.op = "onmessage" /\ last.msg.type = "user_left"
  /\ \E d \in last.destroyed : d.peerId = last.msg.userId /\ d.phase = "connected"

\* C9: user_left{X} handled while the peer map has no record for X changes
\* nothing: the map, the other peers' instances, joined and the refs stay as
\* they are, nothing is destroyed, nothing is sent, and onPeerDisconnect is
\* not called.
C9_UserLeftUnknownIsNoOp ==
  [][ ( /\ last'.op = "onmessage" /\ last'.msg.type = "user_left"
        /\ last'.msg.userId \notin DOMAIN peers[last'.chan] )
      => /\ UNCHANGED <<peers, peersRef, detached, gen, isJoined, userIdRef, roomIdRef>>
         /\ last'.destroyed = {}
         /\ last'.callbacks = <<>>
         /\ last'.sent = EmptyQ ]_vars

\* user_left for a peer whose connection had existed and is gone already,
\* handled while another peer's record is in the map.
C9_Witness ==
  /\ last.op = "onmessage" /\ last.msg.type = "user_left"
  /\ last.callbacks = <<>>
  /\ gen[last.chan][last.msg.userId] > 0
  /\ peers[last.chan] # EmptyMap

\* The page of an identifier, and whether identifier x joined after y.
PageOf(u) == CHOOSE k \in Chans : IdOf(k) = u
Position(u) == CHOOSE i \in 1..Len(joinOrder) : joinOrder[i] = u
JoinedLater(x, y) == Position(x) > Position(y)

\* Page k's socket is open at both ends and registered under the page's identifier.
Live(k) ==
  /\ connectionState[k] = "OPEN"
  /\ readyState[k] = "OPEN"
  /\ k \in DOMAIN wsToUserId /\ wsToUserId[k] = IdOf(k)

\* A notification about x is on its way to page k.
Pending(k, x) ==
  \E i \in 1..Len(toClient[k]) :
    LET m == toClient[k][i]
    IN \/ m.type \in {"user_joined", "user_left"} /\ m.userId = x
       \/ m.type = "existing_room" /\ x \in m.userIds

UserLeftPending(k) ==
  \E i \in 1..Len(toClient[k]) : toClient[k][i].type = "user_left"

\* The members of the room of ws that the relay can write to, ws's own aside.
Remaining(ws) ==
  LET u == wsToUserId[ws]
      r == clients[u].roomId
  IN {v \in Members(r) \ {u} : v \in DOMAIN clients /\ readyState[clients[v].ws] = "OPEN"}

\* C10: when the socket of a room member closes, no message of the member
\* having announced it, the close event takes the member out of clients and
\* out of its room and writes user_left for it to every remaining member; a
\* page such a user_left is on its way to handles it, unless its own socket
\* closes; and a page that held a record for nobody else has an empty peer
\* map after handling it.
C10_BobDisconnect ==
  /\ [][ (last'.op = "close" /\ last'.chan \in DOMAIN wsToUserId)
         => LET ws == last'.chan
                u == wsToUserId[ws]
            IN /\ u \notin DOMAIN clients'
               /\ ws \notin DOMAIN wsToUserId'
               /\ \A r \in DOMAIN rooms' : u \notin rooms'[r]
               /\ \A v \in Remaining(ws) :
                    /\ last'.sent[clients[v].ws] = <<UserLeftMsg(u)>>
                    /\ connectionState[clients[v].ws] = "OPEN" =>
                         toClient'[clients[v].ws] = Append(toClient[clients[v].ws], UserLeftMsg(u)) ]_vars
  /\ [][ ( /\ last'.op = "onmessage" /\ last'.msg.type = "user_left"
           /\ DOMAIN peers[last'.chan] \subseteq {last'.msg.userId} )
         => peers'[last'.chan] = EmptyMap ]_vars
  /\ \A k \in Chans :
       UserLeftPending(k) ~> ( \/ connectionState[k] # "OPEN"
                               \/ /\ last.op = "onmessage" /\ last.chan = k
                                  /\ last.msg.type = "user_left" )

\* "b" is gone from the relay, and page 1, which held a record for "b" only,
\* has just handled user_left for it.
C10_Witness ==
  /\ last.op = "onmessage" /\ last.chan = 1 /\ last.msg = UserLeftMsg("b")
  /\ \E d \in last.destroyed : d.peerId = "b"
  /\ "b" \notin DOMAIN clients
  /\ peers[1] = EmptyMap

\* C11: a step in which every member of a room leaves the registry removes
\* the room from the room map (unless the same step is a join into that room,
\* which then holds the joiner alone); and a successful join into a room that
\* is not in the map, or whose only member is the joining socket's previous
\* identifier, leaves the room with exactly the joiner and is answered, on a
\* socket that is OPEN, with an empty existing_room list and nothing else.
C11_RoomLifecycle ==
  [][ /\ \A r \in DOMAIN rooms :
           (rooms[r] \cap DOMAIN clients' = {}) =>
             \/ r \notin DOMAIN rooms'
             \/ /\ last'.res = "join_ok" /\ last'.msg.roomId = r
                /\ rooms'[r] = {last'.msg.userId}
      /\ ( /\ last'.res = "join_ok"
           /\ \/ last'.msg.roomId \notin DOMAIN rooms
              \/ /\ last'.chan \in DOMAIN wsToUserId
                 /\ rooms[last'.msg.roomId] = {wsToUserId[last'.chan]} )
          => /\ rooms'[last'.msg.roomId] = {last'.msg.userId}
             /\ readyState[last'.chan] = "OPEN" =>
                  last'.sent[last'.chan] = <<ExistingRoomMsg({})>> ]_vars

\* A join has just re-created a room the relay had deleted before, while
\* another room is in use.
C11_Witness ==
  /\ last.res = "join_ok"
  /\ last.msg.roomId \in retired
  /\ rooms[last.msg.roomId] = {last.msg.userId}
  /\ last.sent[last.chan] = <<ExistingRoomMsg({})>>
  /\ Cardinality(DOMAIN rooms) = 2

\* The number of entries of queue q equal to m.
Count(q, m) == Cardinality({i \in DOMAIN q : q[i] = m})

\* C12: a successful join of P into room R over an OPEN socket writes, after
\* any user_left of the socket's previous identifier, first existing_room to
\* P, listing the members R had before the step other than P and the socket's
\* previous identifier, and then user_joined{P}: exactly once to the socket
\* of every other member of R that is OPEN, and to no other socket (not P's,
\* none of a participant outside R, none that is unregistered).
C12_JoinNotifications ==
  [][ (last'.res = "join_ok" /\ readyState[last'.chan] = "OPEN") =>
        LET ws == last'.chan
            P == last'.msg.userId
            R == last'.msg.roomId
            before == IF R \in DOMAIN rooms THEN rooms[R] ELSE {}
            old == IF ws \in DOMAIN wsToUserId THEN {wsToUserId[ws]} ELSE {}
            others == before \ (old \cup {P})
            IsJoined(e) == e.msg = UserJoinedMsg(P)
            IsLeft(e) == e.msg.type = "user_left"
            log == last'.log
            first == CHOOSE i \in DOMAIN log : log[i].msg.type = "existing_room"
        IN /\ Cardinality({i \in DOMAIN log : log[i].msg.type = "existing_room"}) = 1
           /\ log[first] = [ws |-> ws, msg |-> ExistingRoomMsg(others)]
           /\ \A i \in DOMAIN log : IF i < first THEN IsLeft(log[i])
                                     ELSE i > first => IsJoined(log[i])
           /\ rooms'[R] = others \cup {P}
           /\ \A w \in Chans :
                Count(last'.sent[w], UserJoinedMsg(P)) =
                  IF /\ w # ws /\ readyState[w] = "OPEN"
                     /\ \E u \in others : clients[u].ws = w
                  THEN 1 ELSE 0 ]_vars

\* A join has just been announced to a member of the room while a participant
\* of another room was connected.
C12_Witness ==
  /\ last.res = "join_ok"
  /\ \E i \in DOMAIN last.log :
        /\ last.log[i].msg = UserJoinedMsg(last.msg.userId)
        /\ i > 1 /\ last.log[i - 1].msg.type = "existing_room"
        /\ last.log[i - 1].msg.userIds # {}
  /\ \E u \in DOMAIN clients :
        /\ clients[u].roomId # last.msg.roomId
        /\ readyState[clients[u].ws] = "OPEN"

\* C13: when a socket closes or errors, and a join had succeeded on it since
\* it was connected (as X, not yet cleaned up by an earlier error event),
\* user_left{X} is written exactly once to the socket of every remaining
\* member of X's room that is OPEN and nothing is written to any other
\* socket, and X leaves the registry; when no join has succeeded on the
\* socket, nothing is written to anyone and clients, rooms and wsToUserId are
\* unchanged.
C13_DisconnectNotifications ==
  [][ last'.op \in {"close", "error"} =>
        LET ws == last'.chan IN
        IF ws \in DOMAIN latest
        THEN LET X == latest[ws]
                 remaining == rooms[joinedOn[X].roomId] \ {X}
             IN /\ \A w \in Chans :
                     last'.sent[w] =
                       IF /\ w # ws /\ readyState[w] = "OPEN"
                          /\ \E u \in remaining : clients[u].ws = w
                       THEN <<UserLeftMsg(X)>> ELSE <<>>
                /\ X \notin DOMAIN clients'
                /\ ws \notin DOMAIN wsToUserId'
        ELSE /\ last'.sent = EmptyQ
             /\ UNCHANGED <<clients, rooms, wsToUserId>> ]_vars

\* A socket has just gone away, a member of its room has been told, and a
\* participant of another room is connected.
C13_Witness ==
  /\ last.op \in {"close", "error"}
  /\ \E w \in Chans, u \in DOMAIN clients :
        /\ last.sent[w] # <<>>
        /\ w \in DOMAIN wsToUserId
        /\ clients[u].roomId # clients[wsToUserId[w]].roomId
        /\ readyState[clients[u].ws] = "OPEN"

\* C14: a join without userId or without roomId changes neither clients nor
\* rooms nor wsToUserId nor the state of any socket (the sender's stays as it
\* was), writes nothing to any other socket, and writes to the sender, when
\* its socket is OPEN, the one error 'Missing userId or roomId in join
\* message'.
C14_JoinMissingField ==
  [][ ( /\ last'.op = "message" /\ last'.msg.type = "join"
        /\ (last'.msg.userId = None \/ last'.msg.roomId = None) )
      => /\ UNCHANGED <<clients, rooms, wsToUserId, readyState>>
         /\ \A w \in Chans \ {last'.chan} : last'.sent[w] = <<>>
         /\ last'.sent[last'.chan] =
              IF readyState[last'.chan] = "OPEN"
              THEN <<ErrorMsg("Missing userId or roomId in join message", None)>>
              ELSE <<>> ]_vars

\* A participant that has joined sends a join without a field while another
\* participant is connected, and is answered.
C14_Witness ==
  /\ last.res = "join_missing"
  /\ last.chan \in DOMAIN wsToUserId
  /\ last.sent[last.chan] # <<>>
  /\ readyState[last.chan] = "OPEN"
  /\ \E w \in DOMAIN wsToUserId : w # last.chan /\ readyState[w] = "OPEN"

\* C15: a signal arriving on a socket on which no join has succeeded since it
\* was connected is written to no socket: the only write of the step is the
\* error 'Cannot send signal before joining a room' to the sender (when its
\* socket is OPEN), whoever the named receiver is, and the relay's maps are
\* unchanged.
C15_SignalFromUnregistered ==
  [][ ( /\ last'.op = "message" /\ last'.msg.type = "signal"
        /\ last'.chan \notin DOMAIN latest )
      => /\ \A w \in Chans \ {last'.chan} : last'.sent[w] = <<>>
         /\ last'.sent[last'.chan] =
              IF readyState[last'.chan] = "OPEN"
              THEN <<ErrorMsg("Cannot send signal before joining a room", None)>>
              ELSE <<>>
         /\ UNCHANGED <<clients, rooms, wsToUserId, readyState>> ]_vars

\* A socket that has not joined has just sent a well-formed signal to a
\* participant that is registered over an OPEN socket, and got the error.
C15_Witness ==
  /\ last.res = "signal_no_sender"
  /\ last.msg.signalData # NoData
  /\ last.msg.receiverId \in DOMAIN clients
  /\ readyState[clients[last.msg.receiverId].ws] = "OPEN"
  /\ last.sent[last.chan] # <<>>

\* C16: a well-formed signal from a socket that has joined as S, naming a
\* receiver that is in the registry over an OPEN socket, is written exactly
\* once to that socket, as signal{senderId: S} with the payload that was
\* sent, and nothing is written to any other socket; the relay's maps are
\* unchanged.
C16_SignalPointToPoint ==
  [][ ( /\ last'.op = "message" /\ last'.msg.type = "signal"
        /\ last'.chan \in DOMAIN latest
        /\ last'.msg.signalData # NoData
        /\ last'.msg.receiverId \in DOMAIN clients
        /\ readyState[clients[last'.msg.receiverId].ws] = "OPEN" )
      => /\ \A w \in Chans :
              last'.sent[w] =
                IF w = clients[last'.msg.receiverId].ws
                THEN <<RelayedSignalMsg(latest[last'.chan], last'.msg.signalData)>>
                ELSE <<>>
         /\ UNCHANGED <<clients, rooms, wsToUserId, readyState>> ]_vars

\* A signal has just been relayed between two members of a room that has a
\* third member, connected as well.
C16_Witness ==
  /\ last.res = "signal_relayed"
  /\ last.chan \in DOMAIN wsToUserId
  /\ last.msg.receiverId # wsToUserId[last.chan]
  /\ last.msg.receiverId \in DOMAIN clients
  /\ \E r \in DOMAIN rooms : Cardinality(rooms[r]) = 3
  /\ \A w \in Chans : readyState[w] = "OPEN"

\* C17: a message the relay can parse whose type is neither join nor signal
\* changes neither clients nor rooms nor wsToUserId nor the state of any
\* socket, writes nothing to any other socket, and is answered on the
\* sender's socket, when it is OPEN, by the one error 'Unknown message type:
\* <type>'.
C17_UnknownTypeAnswered ==
  [][ ( /\ last'.op = "message"
        /\ last'.msg.type \notin {"join", "signal", "#notjson"} )
      => /\ UNCHANGED <<clients, rooms, wsToUserId, readyState>>
         /\ \A w \in Chans \ {last'.chan} : last'.sent[w] = <<>>
         /\ last'.sent[last'.chan] =
              IF readyState[last'.chan] = "OPEN"
              THEN <<ErrorMsg("Unknown message type: ", last'.msg.type)>>
              ELSE <<>> ]_vars

\* C18: when the relay handles a reconnect_request{targetId, userId} sent by
\* a client that has joined, and targetId is registered over an OPEN socket,
\* the relay writes the reconnect_request to that socket.
C18_ReconnectRequestCarried ==
  [][ ( /\ last'.op = "message" /\ last'.msg.type = "reconnect_request"
        /\ last'.chan \in DOMAIN latest
        /\ last'.msg.targetId \in DOMAIN clients
        /\ readyState[clients[last'.msg.targetId].ws] = "OPEN" )
      => \E i \in DOMAIN last'.sent[clients[last'.msg.targetId].ws] :
            last'.sent[clients[last'.msg.targetId].ws][i].type = "reconnect_request" ]_vars

\* C19: once replaceTrack has been rejected on page 1 for peer X and the
\* fallback has destroyed X's connection and sent reconnect_request{targetId:
\* X}, page 1 comes to hold a record for X again, created as initiator.
C19_FallbackRecreatesPeer ==
  \A x \in Ids :
    (last.res = "replace_fallback" /\ last.chan = 1 /\ last.msg.targetId = x)
      ~> (x \in DOMAIN peers[1] /\ peers[1][x].initiator)

\* C20: the fallback that replaceVideoTrack runs for a peer X whose
\* replaceTrack was rejected leaves every other peer as it was: the record of
\* every other peer stays in the map with the same instance, nothing of
\* another peer is destroyed or put out of the map, and the map the forEach
\* walks (peersRef) is unchanged, so every other peer is still processed.
C20_ReplaceTrackIsolated ==
  [][ last'.op = "replaceVideoTrack" =>
        LET k == last'.chan
            X == last'.msg.targetId
        IN /\ \A y \in DOMAIN peers[k] \ {X} :
                y \in DOMAIN peers'[k] /\ peers'[k][y] = peers[k][y]
           /\ \A d \in last'.destroyed : d.peerId = X
           /\ {d \in detached'[k] : d.peerId # X} = {d \in detached[k] : d.peerId # X}
           /\ peersRef'[k] = peersRef[k]
           /\ \A j \in Chans \ {k} : peers'[j] = peers[j] ]_vars

\* The fallback has just destroyed the connection to one peer while the page
\* holds a record for another.
C20_Witness ==
  /\ last.op = "replaceVideoTrack"
  /\ last.destroyed # {}
  /\ \E y \in DOMAIN peers[last.chan] :
        /\ y # last.msg.targetId
        /\ y \in DOMAIN peersRef[last.chan]
        /\ peersRef[last.chan][y] = peers[last.chan][y]

\* C21: when a call of setVideoBitrate has returned, it has not thrown, it has
\* visited every peer of the map it started on exactly once, whatever
\* happened at the peers before (no connection, no video sender, a rejected
\* update), and the sender of every peer whose update was fulfilled holds the
\* bitrate of the call.
C21_BitrateBestEffort ==
  rate.status = "done" =>
    /\ ~rate.raised
    /\ rate.todo = <<>>
    /\ \A i \in DOMAIN rate.trace :
         rate.trace[i].outcome = "set" =>
           \E key \in DOMAIN rate.max :
              key[1] = rate.trace[i].peerId /\ rate.max[key] = rate.bitrate
    /\ {rate.trace[i].peerId : i \in DOMAIN rate.trace} = rate.started
    /\ \A i, j \in DOMAIN rate.trace :
         rate.trace[i].peerId = rate.trace[j].peerId => i = j

\* A call has returned after a rejected update for the first peer and a
\* fulfilled one for the second.
C21_Witness ==
  /\ rate.status = "done"
  /\ Len(rate.trace) = 2
  /\ rate.trace[1].outcome = "rejected"
  /\ rate.trace[2].outcome = "set"

\* C22: a call of setVideoBitrate made while the peer map is empty returns at
\* once without throwing, changes nothing of the orchestrator (joined, the
\* refs, the peer map, the ref of the map, the connections) and hands nothing
\* to sendMessage; no sender's bitrate is touched.
C22_BitrateOnEmptyMap ==
  [][ (last'.op = "setVideoBitrate" /\ peers[last'.chan] = EmptyMap) =>
        /\ UNCHANGED orchVars
        /\ UNCHANGED <<toRelay, toClient>>
        /\ last'.sent = EmptyQ
        /\ rate'.status = "done" /\ ~rate'.raised
        /\ rate'.max = rate.max ]_vars

\* setVideoBitrate has just returned on a joined orchestrator without peers.
C22_Witness ==
  /\ last.op = "setVideoBitrate"
  /\ peers[1] = EmptyMap /\ peersRef[1] = EmptyMap
  /\ isJoined[1]
  /\ rate.status = "done" /\ rate.trace = <<>>

\* C23: a call of joinRoom with a room and an identifier, made while the
\* socket is not open or the orchestrator is already joined, hands nothing to
\* the socket and leaves joined, roomId and the local identifier as they
\* were; any other call hands exactly one join{userId, roomId} to the socket
\* and sets joined.  So joined turns true only in a step that handed a join
\* to an open socket.
C23_JoinRoomGuarded ==
  [][ \A k \in Chans :
        (last'.op = "joinRoom" /\ last'.chan = k /\ last'.msg.roomId # None
           /\ last'.msg.userId # None) =>
          /\ IF connectionState[k] # "OPEN" \/ isJoined[k]
             THEN /\ last'.sent[k] = <<>>
                  /\ isJoined'[k] = isJoined[k]
                  /\ roomIdRef'[k] = roomIdRef[k]
                  /\ userIdRef'[k] = userIdRef[k]
             ELSE /\ last'.sent[k] = <<last'.msg>>
                  /\ isJoined'[k]
          /\ (isJoined'[k] /\ ~isJoined[k]) =>
               (connectionState[k] = "OPEN" /\ last'.sent[k] = <<last'.msg>>) ]_vars

\* C24: when leaveRoom has returned, destroy() has been called on every
\* connection that was in the peer map, whatever the phase of its
\* negotiation, the peer map is empty, joined is false, and roomId and the
\* local identifier are cleared.
C24_LeaveRoomDestroysAll ==
  [][ \A k \in Chans :
        (last'.op = "leaveRoom" /\ last'.chan = k) =>
          /\ \A x \in DOMAIN peers[k] : Destroyed(x, peers[k][x]) \in last'.destroyed
          /\ peers'[k] = EmptyMap
          /\ ~isJoined'[k]
          /\ roomIdRef'[k] = None
          /\ userIdRef'[k] = None ]_vars

\* C25: when the socket of an orchestrator has closed, destroy() has been
\* called on every connection of its peer map, whatever the phase of its
\* negotiation, and the peer map is empty.
C25_ChannelCloseDestroysPeers ==
  [][ \A k \in Chans :
        (last'.op = "onclose" /\ last'.chan = k) =>
          /\ \A x \in DOMAIN peers[k] : Destroyed(x, peers[k][x]) \in last'.destroyed
          /\ peers'[k] = EmptyMap ]_vars

\* C26: a join for room R sent over an open socket that is registered under
\* the same identifier as a member of R changes no room and no registration,
\* leaves the socket open, and is answered with existing_room listing the
\* other members of R.
C26_RejoinIdempotent ==
  [][ \A ws \in Chans :
        ( /\ last'.op = "message" /\ last'.chan = ws
          /\ last'.msg.type = "join"
          /\ readyState[ws] = "OPEN"
          /\ ws \in DOMAIN wsToUserId
          /\ wsToUserId[ws] = last'.msg.userId
          /\ clients[last'.msg.userId].roomId = last'.msg.roomId ) =>
          /\ rooms' = rooms
          /\ clients' = clients
          /\ wsToUserId' = wsToUserId
          /\ readyState'[ws] = "OPEN"
          /\ last'.sent[ws] =
               <<ExistingRoomMsg(rooms[last'.msg.roomId] \ {last'.msg.userId})>> ]_vars

\* C27: messages keep their order from a page through the relay to another
\* page.  When a page handles a signal of a sender, no signal that sender
\* emitted earlier for it is still on its way, in the sender's socket or in
\* the page's own; and no existing_room is behind the signal in the page's
\* socket: the reply to its join came first.
SignalsTo(q, senderId) ==
  {q[i].signalData[1] : i \in {j \in DOMAIN q : q[j].type = "signal" /\ q[j].senderId = senderId}}
SignalsFor(q, receiverId) ==
  {q[i].signalData[1] : i \in {j \in DOMAIN q : q[j].type = "signal" /\ q[j].receiverId = receiverId}}
C27_OrderPreserved ==
  [][ \A k, c \in Chans :
        ( /\ last'.op = "onmessage" /\ last'.chan = k
          /\ last'.msg.type = "signal" /\ last'.msg.senderId = IdOf(c) ) =>
          /\ \A n \in SignalsTo(toClient'[k], IdOf(c)) \cup SignalsFor(toRelay'[c], IdOf(k)) :
                n > last'.msg.signalData[1]
          /\ \A i \in DOMAIN toClient'[k] : toClient'[k][i].type # "existing_room" ]_vars

\* Page 2 has just handled the first signal of "a"; the second one "a"
\* emitted for it is the next message of its socket.
C27_Witness ==
  /\ last.op = "onmessage" /\ last.chan = 2
  /\ last.msg = RelayedSignalMsg("a", Data(1))
  /\ toClient[2] = <<RelayedSignalMsg("a", Data(2))>>

\* C28: when an orchestrator handles a signal of senderId and its peer map
\* holds a record for senderId, the signal is handed to the connection of
\* that record, also when the record was created by the message handled just
\* before; when the map holds no record, nothing of the orchestrator changes
\* and nothing is sent.
C28_SignalRouted ==
  [][ \A k \in Chans :
        ( /\ last'.op = "onmessage" /\ last'.chan = k
          /\ last'.msg.type = "signal" ) =>
          LET x == last'.msg.senderId IN
          IF x \in DOMAIN peers[k]
          THEN /\ last'.res = "signal_accepted"
               /\ x \in DOMAIN peersRef[k]
               /\ peersRef[k][x].n = peers[k][x].n
          ELSE /\ peers'[k] = peers[k] /\ peersRef'[k] = peersRef[k]
               /\ detached'[k] = detached[k] /\ isJoined'[k] = isJoined[k]
               /\ last'.sent = EmptyQ ]_vars

\* C29: a 'close' or 'error' event of a connection for X, of the instance in
\* the map or of one destroyed earlier, removes the record of X and calls
\* destroy() on its instance and on no instance of another peer; the record
\* of every other peer stays as it was, joined and the refs are unchanged,
\* and nothing is sent.
PeerEvents == {"peer_close", "peer_error", "late_close"}
C29_PeerFailureIsLocal ==
  [][ \A k \in Chans :
        (last'.op \in PeerEvents /\ last'.chan = k) =>
          LET X == last'.msg.userId IN
          /\ X \notin DOMAIN peers'[k]
          /\ X \in DOMAIN peers[k] => Destroyed(X, peers[k][X]) \in last'.destroyed
          /\ \A d \in last'.destroyed : d.peerId = X
          /\ DOMAIN peers'[k] = DOMAIN peers[k] \ {X}
          /\ \A y \in DOMAIN peers'[k] : peers'[k][y] = peers[k][y]
          /\ {d \in detached'[k] : d.peerId # X} = {d \in detached[k] : d.peerId # X}
          /\ isJoined' = isJoined /\ userIdRef' = userIdRef /\ roomIdRef' = roomIdRef
          /\ peersRef' = peersRef
          /\ last'.sent = EmptyQ ]_vars

\* The connection to one peer has just reported an error and its record is
\* gone, while the record of another peer is in the map.
C29_Witness ==
  /\ last.op = "peer_error"
  /\ last.destroyed # {}
  /\ \E y \in DOMAIN peers[last.chan] : y # last.msg.userId
  /\ isJoined[last.chan]

\* C30: an identifier without a record gets one in the peer map of an
\* orchestrator only in a step that handles existing_room listing it or
\* user_joined naming it; no other step (a stream, a signal, an error reply,
\* a reconnect_request, a call of the application) adds one.
C30_RecordsOnlyFromRoomEvents ==
  [][ \A k \in Chans : \A x \in DOMAIN peers'[k] \ DOMAIN peers[k] :
        /\ last'.op = "onmessage" /\ last'.chan = k
        /\ \/ last'.msg.type = "existing_room" /\ x \in last'.msg.userIds
           \/ last'.msg.type = "user_joined" /\ x = last'.msg.userId ]_vars

C32_RelayMapsConsistent ==
  /\ \A c \in Chans : \A u \in Ids :
        (c \in DOMAIN wsToUserId /\ wsToUserId[c] = u)
          <=> (u \in DOMAIN clients /\ clients[u].ws = c)
  /\ \A u \in DOMAIN clients :
        /\ clients[u].roomId \in DOMAIN rooms
        /\ \A r \in DOMAIN rooms : u \in rooms[r] <=> r = clients[u].roomId
  /\ \A r \in DOMAIN rooms : rooms[r] # {}

\* Two sockets are registered, in two rooms, after one of them left the room
\* of the other by joining under another identifier.
C32_Witness ==
  /\ Cardinality(DOMAIN wsToUserId) = 2
  /\ Cardinality(DOMAIN rooms) = 2
  /\ last.res = "join_ok"
  /\ \E u \in DOMAIN joinedOn : joinedOn[u].ws = last.chan /\ u # last.msg.userId

\* C33: every signal the relay writes carries as senderId the identifier the
\* relay registered for the sending socket at its join, whatever senderId the
\* client put in the payload.
C33_SenderIdFromRegistry ==
  [][ \A w \in Chans : \A i \in DOMAIN last'.sent[w] :
        (last'.op = "message" /\ last'.sent[w][i].type = "signal") =>
          /\ last'.chan \in DOMAIN latest
          /\ last'.sent[w][i].senderId = latest[last'.chan]
          /\ last'.sent[w][i].senderId = wsToUserId[last'.chan] ]_vars

\* The relay has just forwarded a signal whose payload named another
\* registered participant as its sender.
C33_Witness ==
  /\ last.res = "signal_relayed"
  /\ last.msg.senderId # wsToUserId[last.chan]
  /\ last.msg.senderId \in DOMAIN clients
  /\ \E w \in Chans : \E i \in DOMAIN last.sent[w] :
        last.sent[w][i] = RelayedSignalMsg(wsToUserId[last.chan], last.msg.signalData)

\* C34: a well-formed signal from a registered socket to a receiver that is
\* registered over an OPEN socket is written to the receiver's socket whether
\* or not sender and receiver are members of the same room.
C34_SignalAcrossRooms ==
  [][ ( /\ last'.op = "message" /\ last'.msg.type = "signal"
        /\ last'.chan \in DOMAIN wsToUserId
        /\ last'.msg.signalData # NoData
        /\ last'.msg.receiverId \in DOMAIN clients
        /\ readyState[clients[last'.msg.receiverId].ws] = "OPEN" )
      => /\ last'.res = "signal_relayed"
         /\ last'.sent[clients[last'.msg.receiverId].ws] =
              <<RelayedSignalMsg(wsToUserId[last'.chan], last'.msg.signalData)>> ]_vars

\* The relay has just forwarded a signal from a member of one room to a
\* member of another room.
C34_Witness ==
  /\ last.res = "signal_relayed"
  /\ last.chan \in DOMAIN wsToUserId
  /\ last.msg.receiverId \in DOMAIN clients
  /\ clients[last.msg.receiverId].roomId # clients[wsToUserId[last.chan]].roomId
  /\ last.sent[clients[last.msg.receiverId].ws] # <<>>

\* C35: leaveRoom hands nothing to the socket and leaves it as it is, and the
\* relay's registry, rooms and sockets are the same after it; the relay
\* drops the registration of a page's socket only in its 'close' or 'error'
\* event of that socket.
C35_LeaveRoomIsLocal ==
  /\ [][ last'.op = "leaveRoom" =>
           /\ last'.sent = EmptyQ
           /\ UNCHANGED <<connectionState, toRelay, toClient>>
           /\ UNCHANGED <<clients, rooms, wsToUserId, readyState>> ]_vars
  /\ [][ \A k \in Chans :
           (k \in DOMAIN wsToUserId /\ k \notin DOMAIN wsToUserId') =>
             (last'.op \in {"close", "error"} /\ last'.chan = k) ]_vars

\* Page 1 has left the room by hand: it is not joined any more, its socket
\* is open, and the relay still holds it as a member of the room.
C35_Witness ==
  /\ last.op = "leaveRoom" /\ last.chan = 1
  /\ ~isJoined[1]
  /\ connectionState[1] = "OPEN" /\ readyState[1] = "OPEN"
  /\ 1 \in DOMAIN wsToUserId /\ wsToUserId[1] = "a"
  /\ "r1" \in DOMAIN rooms /\ "a" \in rooms["r1"]

\* C36: an accepted join as Y on a socket registered as another identifier
\* X removes X from the registry and from its room, which is deleted when X
\* was its last member (and is there again only as Y's room), while the
\* members that remain, on open sockets, are each written user_left{X}
\* before anything the join writes for Y; the socket is then registered as
\* Y only.  In every state a socket is registered under at most one
\* identifier.
C36_RejoinUnderNewIdentifier ==
  /\ [][ \A ws \in Chans :
           ( /\ last'.op = "message" /\ last'.chan = ws /\ last'.res = "join_ok"
             /\ ws \in DOMAIN wsToUserId
             /\ wsToUserId[ws] # last'.msg.userId ) =>
             LET X == wsToUserId[ws]
                 Y == last'.msg.userId
                 rx == clients[X].roomId
                 rest == rooms[rx] \ {X}
                 IsLeft(i) == last'.log[i].msg = UserLeftMsg(X)
             IN /\ X \notin DOMAIN clients'
                /\ \A r \in DOMAIN rooms' : X \notin rooms'[r]
                /\ rest = {} => (rx \in DOMAIN rooms' => rooms'[rx] = {Y})
                /\ \A u \in rest :
                      readyState[clients[u].ws] = "OPEN" =>
                        Cardinality({i \in DOMAIN last'.log :
                                       IsLeft(i) /\ last'.log[i].ws = clients[u].ws}) = 1
                /\ \A i, j \in DOMAIN last'.log :
                      (IsLeft(i) /\ ~IsLeft(j)) => i < j
                /\ wsToUserId'[ws] = Y
                /\ clients'[Y] = [ws |-> ws, roomId |-> last'.msg.roomId]
                /\ Y \in rooms'[last'.msg.roomId] ]_vars
  /\ [](\A u1, u2 \in DOMAIN clients : clients[u1].ws = clients[u2].ws => u1 = u2)

\* Socket 1, registered as "a" in a room with another member, has just
\* joined as "b": the other member was told that "a" left.
C36_Witness ==
  /\ last.op = "message" /\ last.chan = 1 /\ last.res = "join_ok"
  /\ last.msg.userId = "b"
  /\ "a" \in DOMAIN joinedOn /\ joinedOn["a"].ws = 1
  /\ \E i \in DOMAIN last.log : last.log[i].msg = UserLeftMsg("a")
  /\ wsToUserId[1] = "b" /\ "a" \notin DOMAIN clients

\* C37: a 'close' or 'error' of a socket writes user_left only for the
\* identifier the socket is registered under, joined on it since the socket's
\* last 'close' or 'error', to members of its room and at most once per
\* socket, and leaves the socket unregistered; on an unregistered socket it
\* writes nothing and changes no map.  So a 'close' that follows the 'error'
\* of the same socket removes and announces nothing.
C37_DepartureOnce ==
  /\ [][ \A ws \in Chans :
           (last'.op \in {"close", "error"} /\ last'.chan = ws) =>
             /\ ws \notin DOMAIN wsToUserId'
             /\ IF ws \in DOMAIN wsToUserId
                THEN LET X == wsToUserId[ws]
                         rx == clients[X].roomId
                     IN /\ X \in DOMAIN joinedOn /\ joinedOn[X].ws = ws
                        /\ X \notin DOMAIN clients'
                        /\ \A r \in DOMAIN rooms' : X \notin rooms'[r]
                        /\ \A i \in DOMAIN last'.log :
                             /\ last'.log[i].msg = UserLeftMsg(X)
                             /\ \E u \in rooms[rx] \ {X} : clients[u].ws = last'.log[i].ws
                        /\ \A i, j \in DOMAIN last'.log :
                             last'.log[i].ws = last'.log[j].ws => i = j
                        /\ \A u \in DOMAIN joinedOn' : joinedOn'[u].ws # ws
                ELSE /\ last'.log = <<>> /\ last'.sent = EmptyQ
                     /\ UNCHANGED <<clients, rooms, wsToUserId>> ]_vars
  /\ [][ \A ws \in Chans :
           ( /\ last.op = "error" /\ last.chan = ws
             /\ last'.op = "close" /\ last'.chan = ws ) =>
             /\ last'.log = <<>> /\ last'.sent = EmptyQ
             /\ UNCHANGED <<clients, rooms, wsToUserId>> ]_vars

\* Socket 1 has closed with nothing left to remove or announce, as after its
\* 'error' took "a" out of the room that "b" is still in.
C37_Witness ==
  /\ last.op = "close" /\ last.chan = 1 /\ last.log = <<>>
  /\ readyState[1] = "CLOSED"
  /\ 1 \notin DOMAIN wsToUserId /\ "a" \notin DOMAIN clients
  /\ "b" \in DOMAIN clients /\ clients["b"].ws = 2
  /\ readyState[2] = "OPEN"

\* C38: the 'close' of a destroyed instance that is no longer in the map
\* leaves the record the map holds for the same identifier as it is: the
\* record stays, no instance is destroyed and the application is not told
\* that the peer disconnected.
C38_LateCloseSparesNewerRecord ==
  [][ \A k \in Chans :
        (last'.op = "late_close" /\ last'.chan = k) =>
          LET x == last'.msg.userId
          IN x \in DOMAIN peers[k] =>
               /\ x \in DOMAIN peers'[k]
               /\ peers'[k][x] = peers[k][x]
               /\ last'.destroyed = {}
               /\ last'.callbacks = <<>> ]_vars

\* C39: when a joined orchestrator that has a local stream handles
\* reconnect_request{userId: X, targetId: its own id} with X another
\* identifier, the map then holds for X an instance made in this step with
\* initiator = true, and the instance of the record it held for X before, if
\* any, was destroyed; a reconnect_request with another targetId changes
\* nothing, destroys nothing and sends nothing.
C39_ReconnectRequestReplaces ==
  [][ \A k \in Chans :
        ( /\ last'.op = "onmessage" /\ last'.chan = k
          /\ last'.msg.type = "reconnect_request"
          /\ userIdRef[k] # None ) =>
          LET X == last'.msg.userId
          IN IF last'.msg.targetId = userIdRef[k]
             THEN (X # userIdRef[k] /\ peerCreatorRef[k]) =>
                    /\ X \in DOMAIN peers'[k]
                    /\ gen'[k][X] = gen[k][X] + 1
                    /\ peers'[k][X] = NewPeer(gen'[k][X], TRUE)
                    /\ X \in DOMAIN peers[k] =>
                         Destroyed(X, peers[k][X]) \in last'.destroyed
             ELSE /\ UNCHANGED <<peers, peersRef, gen, detached, isJoined, userIdRef, roomIdRef>>
                  /\ last'.destroyed = {} /\ last'.sent = EmptyQ ]_vars

====
